---- MODULE Spec2Model ----
(***************************************************************************)
(* A model of go-gum/unravel: the type-directed decoder (decoder.go), the  *)
(* struct field resolver (fieldsToSerialize, nameOf) and the Source        *)
(* contract the decoder calls.                                             *)
(*                                                                         *)
(* Strings that the program takes apart (struct tags, field names, keys)   *)
(* are sequences of one-character strings; type identities (reflect.Type)  *)
(* are strings naming the type.                                            *)
(***************************************************************************)
EXTENDS Integers, Sequences, FiniteSets, TLC

VARIABLES
    types,   \* the program's types: reflect.Type identity -> description
    decs,    \* the Decoder objects created so far (decs[1] is the package default)
    calls,   \* per caller: the Unmarshal call it is in, if any
    last     \* the outcome of the Unmarshal call that returned last

vars == <<types, decs, calls, last>>

(***************************************************************************)
(* Bounds of the model.                                                    *)
(***************************************************************************)
MaxDepth == 3      \* deepest nesting of a source (levels of Get)
MaxElems == 2      \* most elements / pairs a source sequence yields
MaxFail == 8       \* latest source call at which an error is injected
MaxDecoders == 3   \* Decoder objects created in one behaviour

(***************************************************************************)
(* reflect.Type and reflect.StructField, as far as the decoder reads them. *)
(***************************************************************************)
TagKeys == {"json", "url"}

NoTag == [k \in TagKeys |-> <<>>]

JsonTag(t) == [k \in TagKeys |-> IF k = "json" THEN t ELSE <<>>]

Ty(kind, elem, key, len, text, members) ==
    [Kind |-> kind, Elem |-> elem, Key |-> key, Len |-> len, Text |-> text,
     Members |-> members]

Scalar(kind) == Ty(kind, "", "", 0, FALSE, <<>>)

Member(name, type, anonymous, exported, tag) ==
    [Name |-> name, Type |-> type, Anonymous |-> anonymous,
     Exported |-> exported, Tag |-> tag]

Fld(name, type) == Member(name, type, FALSE, TRUE, NoTag)

\* The kinds makeSetterOf has a case for; every other kind is NotSupported.
IntKinds == {"int", "int8", "int16", "int32", "int64"}
UintKinds == {"uint", "uint8", "uint16", "uint32", "uint64"}
ScalarKinds == {"bool", "float32", "float64", "string"} \cup IntKinds \cup UintKinds
CompositeKinds == {"ptr", "struct", "slice", "array", "map"}

(***************************************************************************)
(* The types of the decoder runs:                                          *)
(*   type Node struct { V string; N *Node }       (self-referential)       *)
(*   type Bad  struct { P *Bad;  X any }          (cycle + undecodable)    *)
(*   type Deep struct { S []*int8; M map[string][2]int8 }                  *)
(* and the shapes that reach `any` through one constructor each.           *)
(***************************************************************************)
BaseTypes ==
    [string |-> Scalar("string"), int8 |-> Scalar("int8"), any |-> Scalar("interface")]
    @@ ("Node" :> Ty("struct", "", "", 0, FALSE,
                     <<Fld(<<"V">>, "string"), Fld(<<"N">>, "*Node")>>))
    @@ ("*Node" :> Ty("ptr", "Node", "", 0, FALSE, <<>>))
    @@ ("Bad" :> Ty("struct", "", "", 0, FALSE,
                    <<Fld(<<"P">>, "*Bad"), Fld(<<"X">>, "any")>>))
    @@ ("*Bad" :> Ty("ptr", "Bad", "", 0, FALSE, <<>>))
    @@ ("[2]int8" :> Ty("array", "int8", "", 2, FALSE, <<>>))
    @@ ("map[string][2]int8" :> Ty("map", "[2]int8", "string", 0, FALSE, <<>>))
    @@ ("*int8" :> Ty("ptr", "int8", "", 0, FALSE, <<>>))
    @@ ("[]*int8" :> Ty("slice", "*int8", "", 0, FALSE, <<>>))
    @@ ("Deep" :> Ty("struct", "", "", 0, FALSE,
                     <<Fld(<<"S">>, "[]*int8"), Fld(<<"M">>, "map[string][2]int8")>>))
    @@ ("*any" :> Ty("ptr", "any", "", 0, FALSE, <<>>))
    @@ ("[]any" :> Ty("slice", "any", "", 0, FALSE, <<>>))
    @@ ("[2]any" :> Ty("array", "any", "", 2, FALSE, <<>>))
    @@ ("map[any]string" :> Ty("map", "string", "any", 0, FALSE, <<>>))
    @@ ("map[string]any" :> Ty("map", "any", "string", 0, FALSE, <<>>))

(***************************************************************************)
(* nameOf: the resolved name of a struct member under a tag key.           *)
(***************************************************************************)
RECURSIVE IndexByteFrom(_, _, _)
IndexByteFrom(s, c, i) ==
    IF i > Len(s) THEN -1
    ELSE IF s[i] = c THEN i - 1
    ELSE IndexByteFrom(s, c, i + 1)

\* strings.IndexByte: the 0-based index of the first c in s, or -1
IndexByte(s, c) == IndexByteFrom(s, c, 1)

\* a nameOf that takes every non-empty tag as an explicit name
nameOfAlwaysExplicit(fi, structTag) ==
    LET tag == fi.Tag[structTag]
        idx == IndexByte(tag, ",")
    IN  IF tag = <<>> THEN [name |-> fi.Name, explicit |-> FALSE]
        ELSE IF tag = <<"-">> THEN [name |-> <<>>, explicit |-> TRUE]
        ELSE IF idx = -1 THEN [name |-> tag, explicit |-> TRUE]
        ELSE IF idx > 0 THEN [name |-> SubSeq(tag, 1, idx), explicit |-> TRUE]
        ELSE [name |-> fi.Name, explicit |-> TRUE]

nameOf(fi, structTag) ==
    LET tag == fi.Tag[structTag]
        idx == IndexByte(tag, ",")
    IN  IF tag = <<>> THEN [name |-> fi.Name, explicit |-> FALSE]
        ELSE IF tag = <<"-">> THEN [name |-> <<>>, explicit |-> TRUE]
        ELSE IF idx = -1 THEN [name |-> tag, explicit |-> TRUE]
        ELSE IF idx > 0 THEN [name |-> SubSeq(tag, 1, idx), explicit |-> TRUE]
        ELSE [name |-> fi.Name, explicit |-> FALSE]

(***************************************************************************)
(* fieldsToSerialize: breadth-first walk over embedded structs, then one   *)
(* decision per name.                                                      *)
(***************************************************************************)
\* candidates[name] of a Go map: the empty list for a name not yet seen
CandidatesOf(candidates, name) ==
    IF name \in DOMAIN candidates THEN candidates[name] ELSE <<>>

\* a walk that takes unexported members too
isExportedAlways(fi) == TRUE

\* fi.IsExported()
isExported(fi) == fi.Exported

\* a walk that takes every anonymous member as an ordinary member
isEmbeddedNever(fi, explicit) == FALSE

\* a walk that takes an anonymous member of another kind than struct as an
\* ordinary member
isEmbeddedStructOnly(fi, explicit) ==
    fi.Anonymous /\ ~explicit /\ types[fi.Type].Kind = "struct"

\* fi.Anonymous && !explicit
isEmbedded(fi, explicit) == fi.Anonymous /\ ~explicit

\* the loop over the members of one queued struct
RECURSIVE walkMembers(_, _, _, _)
walkMembers(item, idx, structTag, st) ==
    IF idx > Len(types[item.Type].Members) THEN st
    ELSE
      LET fi == types[item.Type].Members[idx]
          n == nameOf(fi, structTag)
          index == Append(item.ParentIndex, idx)
          old == CandidatesOf(st.candidates, n.name)
          cand == [Name |-> n.name, Explicit |-> n.explicit,
                   Field |-> [Name |-> n.name, Type |-> fi.Type, Index |-> index]]
      IN  IF ~isExported(fi) THEN walkMembers(item, idx + 1, structTag, st)
          ELSE IF n.name = <<>> THEN walkMembers(item, idx + 1, structTag, st)
          ELSE IF isEmbedded(fi, n.explicit)
            THEN IF types[fi.Type].Kind # "struct"
                   THEN walkMembers(item, idx + 1, structTag, st)
                   ELSE walkMembers(item, idx + 1, structTag,
                          [st EXCEPT !.queue =
                              Append(@, [Type |-> fi.Type, ParentIndex |-> index])])
          ELSE walkMembers(item, idx + 1, structTag,
                 [st EXCEPT
                    !.order = IF Len(old) = 0 THEN Append(@, n.name) ELSE @,
                    !.candidates = (n.name :> Append(old, cand)) @@ @])

RECURSIVE walkQueue(_, _)
\* a walk that goes on with the deepest struct in the queue: depth first
walkQueueDepthFirst(structTag, st) ==
    IF st.queue = <<>> THEN st
    ELSE
      LET q == st.queue
          i == CHOOSE i \in 1..Len(q) :
                  \A j \in 1..Len(q) :
                      \/ Len(q[j].ParentIndex) < Len(q[i].ParentIndex)
                      \/ Len(q[j].ParentIndex) = Len(q[i].ParentIndex) /\ i <= j
          rest == SubSeq(q, 1, i - 1) \o SubSeq(q, i + 1, Len(q))
      IN  walkQueue(structTag,
                    walkMembers(q[i], 1, structTag, [st EXCEPT !.queue = rest]))

\* the loop `for len(queue) > 0`
walkQueue(structTag, st) ==
    IF st.queue = <<>> THEN st
    ELSE walkQueue(structTag,
            walkMembers(Head(st.queue), 1, structTag,
                        [st EXCEPT !.queue = Tail(@)]))

\* the candidates and the order of names after the walk
collectCandidates(ty, structTag) ==
    walkQueue(structTag,
              [queue |-> <<[Type |-> ty, ParentIndex |-> <<>>]>>,
               candidates |-> <<>>, order |-> <<>>])

\* slices.IsSortedFunc(candidates, by index length)
IsSortedByDepth(cs) ==
    \A i \in 1..(Len(cs) - 1) : Len(cs[i].Field.Index) <= Len(cs[i + 1].Field.Index)

MaxOf(S) == CHOOSE x \in S : \A y \in S : y <= x

\* every candidate taken as visible, whatever its depth
visibleOfAll(cs) == cs

\* the loop that takes candidates[:idx+1] for every idx whose index is as long
\* as the first one's: the last such idx decides
visibleOf(cs) ==
    SubSeq(cs, 1, MaxOf({i \in 1..Len(cs) :
                            Len(cs[i].Field.Index) = Len(cs[1].Field.Index)}))

\* a decision that lets the first visible candidate win a tie
selectFieldFirstWins(cs) ==
    LET visible == visibleOf(cs)
    IN  <<visible[1].Field>>

\* the decision for one name: the fields it adds (one or none)
selectField(cs) ==
    LET visible == visibleOf(cs)
        explicit == SelectSeq(visible, LAMBDA c : c.Explicit)
    IN  IF Len(visible) = 1 THEN <<visible[1].Field>>
        ELSE IF Len(explicit) = 1 THEN <<explicit[1].Field>>
        ELSE <<>>

\* the loop over `order`; panic is set when one of the two INVARIANT checks fails
RECURSIVE resolveNames(_, _, _)
resolveNames(walked, i, acc) ==
    IF i > Len(walked.order) \/ acc.panic THEN acc
    ELSE
      LET cs == CandidatesOf(walked.candidates, walked.order[i])
      IN  IF Len(cs) = 0 \/ ~IsSortedByDepth(cs)
            THEN [acc EXCEPT !.panic = TRUE]
            ELSE resolveNames(walked, i + 1,
                              [acc EXCEPT !.fields = @ \o selectField(cs)])

\* a resolver that returns the fields last name first
fieldsToSerializeReversed(ty, structTag) ==
    LET r == resolveNames(collectCandidates(ty, structTag), 1,
                          [fields |-> <<>>, panic |-> FALSE])
    IN  [r EXCEPT !.fields = [i \in 1..Len(r.fields) |-> r.fields[Len(r.fields) + 1 - i]]]

fieldsToSerialize(ty, structTag) ==
    resolveNames(collectCandidates(ty, structTag), 1,
                 [fields |-> <<>>, panic |-> FALSE])

(***************************************************************************)
(* Errors: an error value is the chain errors.Is / errors.As walk, the     *)
(* outermost wrapper first and the root cause last; nil is <<>>.           *)
(***************************************************************************)
Err(e, ty) == [e |-> e, ty |-> ty]

ErrNoValue == Err("ErrNoValue", "")
ErrNotSupported == Err("ErrNotSupported", "")
ErrRange == Err("ErrRange", "")
NotSupportedError(ty) == Err("NotSupportedError", ty)
\* a run-time panic unwinding the call (a failed type assertion)
ErrPanic == Err("panic", "")

\* fmt.Errorf("ctx: %v", err): the text only, the chain is cut
WrapOpaque(ctx, err) == <<Err(ctx, "")>>

\* fmt.Errorf("ctx: %w", err)
Wrap(ctx, err) == <<Err(ctx, "")>> \o err

\* errors.Is(err, target)
Is(err, target) == \E i \in 1..Len(err) : err[i] = target

(***************************************************************************)
(* Setters. A setter is the closure the compiler returns: its kind, the    *)
(* type it was built for, the Decoder it captured, the setters it captured *)
(* (sub) and, for a struct, the resolved fields it captured.               *)
(***************************************************************************)
Setter(k, ty, d, sub, fields) ==
    [k |-> k, ty |-> ty, d |-> d, sub |-> sub, fields |-> fields]

NoSetter == Setter("none", "", 0, <<>>, <<>>)

\* the lazySetter of setterOf: looks the cache up when it is executed
LazySetter(d, ty) == Setter("lazy", ty, d, <<>>, <<>>)

EmptyCache == [t \in DOMAIN types |-> NoSetter]

DecoderObj(structTag, requireValues, cache) ==
    [structTag |-> structTag, requireValues |-> requireValues, setterCache |-> cache]

\* makeSetStruct: structTag := d.structTag; if structTag == "" { structTag = "json" }
TagOf(d) == IF decs[d].structTag = "" THEN "json" ELSE decs[d].structTag

(***************************************************************************)
(* Compilation, one step per access to the shared setter cache. A call     *)
(* keeps the stack of the setterOf/makeSetterOf activations it is in: each *)
(* frame has the type being built, the child types still to request (pend) *)
(* and the child setters obtained so far (subs). Frame 1 stands for        *)
(* Unmarshal itself, waiting for the setter of the target's type.          *)
(***************************************************************************)
Frame(ty, fields, pend, subs) ==
    [ty |-> ty, fields |-> fields, pend |-> pend, subs |-> subs]

IdleCall ==
    [pc |-> "idle", d |-> 0, ty |-> "", stack |-> <<>>, inCon |-> {},
     setter |-> NoSetter]

\* whether makeSetterOf has a case for the type
Supported(ty) ==
    \/ types[ty].Text
    \/ types[ty].Kind \in ScalarKinds \cup CompositeKinds

\* the types whose setters the make* function of ty requests, in order
ChildTypes(ty, fields) ==
    IF types[ty].Text THEN <<>>
    ELSE CASE types[ty].Kind = "ptr" -> <<types[ty].Elem>>
           [] types[ty].Kind = "slice" -> <<types[ty].Elem>>
           [] types[ty].Kind = "array" -> <<types[ty].Elem>>
           [] types[ty].Kind = "map" -> <<types[ty].Key, types[ty].Elem>>
           [] types[ty].Kind = "struct" -> [i \in 1..Len(fields) |-> fields[i].Type]
           [] OTHER -> <<>>

\* a makeSetterOf that goes by the kind alone
makeSetterOfByKind(d, frame) ==
    Setter(types[frame.ty].Kind, frame.ty, d, frame.subs, frame.fields)

\* the setter makeSetterOf returns for ty once the child setters are there
makeSetterOf(d, frame) ==
    IF types[frame.ty].Text
      THEN Setter("text", frame.ty, d, <<>>, <<>>)
      ELSE Setter(types[frame.ty].Kind, frame.ty, d, frame.subs, frame.fields)

\* the context one enclosing make* function adds to a child's compile error
compileContext(frame, err) ==
    CASE types[frame.ty].Kind = "struct" -> Wrap("setter for field", err)
      [] types[frame.ty].Kind = "map" ->
            IF Len(frame.subs) = 0 THEN Wrap("setter for key type", err)
            ELSE Wrap("setter for value type", err)
      [] types[frame.ty].Kind \in {"slice", "array"} ->
            Wrap("setter for element type", err)
      [] OTHER -> err   \* makeSetPointer returns the error as it is

\* the error Unmarshal returns when the request at the top of the stack fails
RECURSIVE compileError(_, _, _)
compileError(stack, i, err) ==
    IF i < 2 THEN err
    ELSE compileError(stack, i - 1, compileContext(stack[i], err))

\* hand a setter to the activation that requested it
Deliver(cl, s) ==
    LET top == Len(cl.stack)
        st == [cl.stack EXCEPT ![top].pend = Tail(@), ![top].subs = Append(@, s)]
    IN  IF top = 1
          THEN [cl EXCEPT !.pc = "ready", !.stack = <<>>, !.setter = s]
          ELSE [cl EXCEPT !.stack = st]

\* a setterOf that never looks into the cache: every request that is not a
\* cycle compiles
setterOfEntryUncached(cl, c) ==
    LET resolved == IF types[c].Kind = "struct" /\ ~types[c].Text
                      THEN fieldsToSerialize(c, TagOf(cl.d))
                      ELSE [fields |-> <<>>, panic |-> FALSE]
    IN  IF c \in cl.inCon
          THEN [call |-> Deliver(cl, LazySetter(cl.d, c)), err |-> <<>>]
        ELSE IF ~Supported(c)
          THEN [call |-> cl,
                err |-> compileError(cl.stack, Len(cl.stack), <<NotSupportedError(c)>>)]
        ELSE IF resolved.panic THEN [call |-> cl, err |-> <<ErrPanic>>]
        ELSE [call |-> [cl EXCEPT
                          !.inCon = @ \cup {c},
                          !.stack = Append(@, Frame(c, resolved.fields,
                                                    ChildTypes(c, resolved.fields), <<>>))],
              err |-> <<>>]

\* setterOf(inConstruction, c) up to its first effect: a cache hit, a cycle
\* thunk, a NotSupportedError, or a new activation of makeSetterOf
setterOfEntry(cl, c) ==
    LET cached == decs[cl.d].setterCache[c]
        resolved == IF types[c].Kind = "struct" /\ ~types[c].Text
                      THEN fieldsToSerialize(c, TagOf(cl.d))
                      ELSE [fields |-> <<>>, panic |-> FALSE]
    IN  IF cached # NoSetter THEN [call |-> Deliver(cl, cached), err |-> <<>>]
        ELSE IF c \in cl.inCon
          THEN [call |-> Deliver(cl, LazySetter(cl.d, c)), err |-> <<>>]
        ELSE IF ~Supported(c)
          THEN [call |-> cl,
                err |-> compileError(cl.stack, Len(cl.stack), <<NotSupportedError(c)>>)]
        ELSE IF resolved.panic THEN [call |-> cl, err |-> <<ErrPanic>>]
        ELSE [call |-> [cl EXCEPT
                          !.inCon = @ \cup {c},
                          !.stack = Append(@, Frame(c, resolved.fields,
                                                    ChildTypes(c, resolved.fields), <<>>))],
              err |-> <<>>]

(***************************************************************************)
(* Target values (reflect.Value): a string is its characters, an integer a *)
(* number, a pointer <<>> (nil) or <<pointee>>, a slice or array the       *)
(* sequence of its elements, a struct the sequence of its members' values, *)
(* a map its pairs and whether it is nil.                                  *)
(***************************************************************************)
MapVal(isNil, kv) == [isNil |-> isNil, kv |-> kv]

RECURSIVE Zero(_)
Zero(ty) ==
    CASE types[ty].Kind = "struct" ->
            [i \in 1..Len(types[ty].Members) |-> Zero(types[ty].Members[i].Type)]
      [] types[ty].Kind = "array" -> [i \in 1..types[ty].Len |-> Zero(types[ty].Elem)]
      [] types[ty].Kind = "map" -> MapVal(TRUE, {})
      [] types[ty].Kind \in IntKinds \cup UintKinds \cup {"float32", "float64"} -> 0
      [] types[ty].Kind = "bool" -> FALSE
      [] OTHER -> <<>>     \* "", nil pointer, nil slice, nil interface

\* a target that already holds data when Unmarshal is called
RECURSIVE Filled(_)
Filled(ty) ==
    CASE types[ty].Kind = "struct" ->
            [i \in 1..Len(types[ty].Members) |-> Filled(types[ty].Members[i].Type)]
      [] types[ty].Kind = "array" -> [i \in 1..types[ty].Len |-> Filled(types[ty].Elem)]
      [] types[ty].Kind = "map" -> MapVal(FALSE, {})
      [] types[ty].Kind \in IntKinds \cup UintKinds \cup {"float32", "float64"} -> 1
      [] types[ty].Kind = "bool" -> TRUE
      [] types[ty].Kind = "string" -> <<"o", "l", "d">>
      [] types[ty].Kind \in {"ptr", "slice"} -> <<Zero(types[ty].Elem)>>
      [] OTHER -> <<>>

\* reflect.Value.FieldByIndex: the slot at a path of member positions
RECURSIVE FieldByIndex(_, _)
FieldByIndex(v, index) ==
    IF index = <<>> THEN v ELSE FieldByIndex(v[Head(index)], Tail(index))

\* the struct value with the slot at a path replaced
RECURSIVE SetFieldByIndex(_, _, _)
SetFieldByIndex(v, index, nv) ==
    IF index = <<>> THEN nv
    ELSE [v EXCEPT ![Head(index)] = SetFieldByIndex(@, Tail(index), nv)]

\* reflect.Value.SetMapIndex
SetMapIndex(m, k, v) ==
    MapVal(FALSE, {kv \in m.kv : kv[1] # k} \cup {<<k, v>>})

(***************************************************************************)
(* The Source of a run. A source value is named by its handle, the path    *)
(* from the root; a source is described by: depth (levels that have        *)
(* children), absent (keys no level has), n (elements or pairs a sequence  *)
(* yields), ival (what Int/Uint return), binary (whether it is a           *)
(* BinarySource) and an error injected at the failAt-th method call.       *)
(***************************************************************************)
Source(depth, absent, n, ival, binary, failAt, failKind) ==
    [depth |-> depth, absent |-> absent, n |-> n, ival |-> ival, binary |-> binary,
     failAt |-> failAt, failKind |-> failKind]

NoSource == Source(0, {}, 0, 0, FALSE, 0, "")

\* the keys under which a source nests values of its own kind
ChainKeys == {<<"N">>, <<"P">>}

\* whether Get(key) on the value at handle h finds a child
HasKey(src, h, key) ==
    /\ key \notin src.absent
    /\ Len(h) + 1 <= src.depth
    /\ Len(h) + 1 = src.depth => key \notin ChainKeys

Digits == <<"0", "1", "2", "3", "4", "5", "6", "7", "8", "9">>

\* the handles of the i-th element, key and value (i from 0) under handle h
ElemHandle(h, i) == Append(h, <<Digits[i + 1]>>)
KeyHandle(h, i) == Append(h, <<"k", Digits[i + 1]>>)
ValueHandle(h, i) == Append(h, <<"v", Digits[i + 1]>>)

\* what String() returns for the value at handle h: its path, dotted
RECURSIVE StringOf(_)
StringOf(h) ==
    IF h = <<>> THEN <<>> ELSE <<".">> \o Head(h) \o StringOf(Tail(h))

\* the Source method calls of a trace (its other entries are yielded elements)
NumCalls(trace) == Cardinality({i \in 1..Len(trace) : trace[i].m # "yield"})

\* one call of a Source method: the error it returns and the trace with the call
SourceCall(src, trace, m, h, key) ==
    LET natural == IF m = "Get" /\ ~HasKey(src, h, key) THEN <<ErrNoValue>> ELSE <<>>
        err == IF NumCalls(trace) + 1 = src.failAt THEN <<Err(src.failKind, "")>>
               ELSE natural
    IN  [err |-> err,
         trace |-> Append(trace, [m |-> m, h |-> h, key |-> key, err |-> err])]

(***************************************************************************)
(* The integer kinds: bounds and the sized method of a BinarySource.       *)
(***************************************************************************)
MinInt8 == -128
MaxInt8 == 127
MaxUint8 == 255
MinInt16 == -32768
MaxInt16 == 32767
MaxUint16 == 65535
MinInt32 == -2147483647 - 1
MaxInt32 == 2147483647

\* unsafe.Sizeof(int(0)) and unsafe.Sizeof(uint(0)) of the build: the types
\* table carries it as the Len of the types of kind int and uint
Sizeof(ty) == types[ty].Len

\* the width in bits of the integer type ty
Bits(ty) ==
    CASE types[ty].Kind \in {"int8", "uint8"} -> 8
      [] types[ty].Kind \in {"int16", "uint16"} -> 16
      [] types[ty].Kind \in {"int32", "uint32"} -> 32
      [] types[ty].Kind \in {"int64", "uint64"} -> 64
      [] types[ty].Kind \in {"int", "uint"} -> 8 * Sizeof(ty)

\* whether the bounds makeSetterOf passes for ty are numbers of the model,
\* whose integers are the 32-bit signed ones; every value of the model is
\* inside the bounds of the other types
HasBounds(ty) ==
    IF types[ty].Kind \in IntKinds THEN Bits(ty) <= 32 ELSE Bits(ty) <= 16

MinValue(ty) ==
    CASE Bits(ty) = 8 -> MinInt8 [] Bits(ty) = 16 -> MinInt16 [] Bits(ty) = 32 -> MinInt32

MaxValue(ty) ==
    IF types[ty].Kind \in IntKinds
      THEN CASE Bits(ty) = 8 -> MaxInt8 [] Bits(ty) = 16 -> MaxInt16
             [] Bits(ty) = 32 -> MaxInt32
      ELSE CASE Bits(ty) = 8 -> MaxUint8 [] Bits(ty) = 16 -> MaxUint16

\* the method of BinarySource makeSetterOf passes as parse
SizedMethod(ty) ==
    IF types[ty].Kind \in IntKinds
      THEN CASE Bits(ty) = 8 -> "Int8" [] Bits(ty) = 16 -> "Int16"
             [] Bits(ty) = 32 -> "Int32" [] Bits(ty) = 64 -> "Int64"
      ELSE CASE Bits(ty) = 8 -> "Uint8" [] Bits(ty) = 16 -> "Uint16"
             [] Bits(ty) = 32 -> "Uint32" [] Bits(ty) = 64 -> "Uint64"

\* the value of ty's width that a sized method returns for ival
Sized(ty, v) ==
    IF Bits(ty) <= 16
      THEN LET span == MaxValue(ty) - MinValue(ty) + 1
               low == IF types[ty].Kind \in IntKinds THEN MinValue(ty) ELSE 0
           IN  ((v - low) % span) + low
      ELSE v

Result(v, err, trace) == [v |-> v, err |-> err, trace |-> trace]

\* the entry the trace gets when a source sequence hands over its next element
Yield(trace, h) == Append(trace, [m |-> "yield", h |-> h, key |-> <<>>, err |-> <<>>])

(***************************************************************************)
(* The setters, as run: each takes the setter (closure), the source handle,*)
(* the target slot's value, the trace so far and the source, and returns   *)
(* the slot's new value, the error and the trace.                          *)
(***************************************************************************)
RECURSIVE RunSetter(_, _, _, _, _)
RECURSIVE structFields(_, _, _, _, _, _)
RECURSIVE sliceElements(_, _, _, _, _, _)
RECURSIVE arrayElements(_, _, _, _, _, _)
RECURSIVE mapPairs(_, _, _, _, _, _, _)

setBool(s, h, tv, trace, src) ==
    LET c == SourceCall(src, trace, "Bool", h, <<>>)
    IN  IF c.err # <<>> THEN Result(tv, Wrap("get bool value", c.err), c.trace)
        ELSE Result(src.ival # 0, <<>>, c.trace)

setFloat(s, h, tv, trace, src) ==
    LET c == SourceCall(src, trace, "Float", h, <<>>)
    IN  IF c.err # <<>> THEN Result(tv, Wrap("get float value", c.err), c.trace)
        ELSE Result(src.ival, <<>>, c.trace)

setString(s, h, tv, trace, src) ==
    LET c == SourceCall(src, trace, "String", h, <<>>)
    IN  IF c.err # <<>> THEN Result(tv, Wrap("get string value", c.err), c.trace)
        ELSE Result(StringOf(h), <<>>, c.trace)

\* target.Addr().Interface().(encoding.TextUnmarshaler).UnmarshalText(text):
\* the constructor of the target's type is a call out of the decoder like the
\* methods of the source; it builds the value from the text or fails
UnmarshalText(src, trace, h, tv, text) ==
    LET c == SourceCall(src, trace, "UnmarshalText", h, text)
    IN  IF c.err # <<>> THEN Result(tv, c.err, c.trace)
        ELSE Result(<<"text">> \o text, <<>>, c.trace)

setTextUnmarshaler(s, h, tv, trace, src) ==
    LET c == SourceCall(src, trace, "String", h, <<>>)
    IN  IF c.err # <<>> THEN Result(tv, Wrap("get string value", c.err), c.trace)
        ELSE UnmarshalText(src, c.trace, h, tv, StringOf(h))

\* an integer closure that stores what fits of the generic number, unchecked
makeSetIntTruncating(s, h, tv, trace, src) ==
    LET c == SourceCall(src, trace, IF src.binary THEN SizedMethod(s.ty) ELSE "Int",
                        h, <<>>)
    IN  IF c.err # <<>> THEN Result(tv, Wrap("get int value", c.err), c.trace)
        ELSE Result(Sized(s.ty, src.ival), <<>>, c.trace)

\* the closure of makeSetInt: the sized method of a BinarySource, else the
\* generic Int and the check against both bounds
makeSetInt(s, h, tv, trace, src) ==
    IF src.binary
      THEN LET c == SourceCall(src, trace, SizedMethod(s.ty), h, <<>>)
           IN  IF c.err # <<>> THEN Result(tv, Wrap("get sized value", c.err), c.trace)
               ELSE Result(Sized(s.ty, src.ival), <<>>, c.trace)
      ELSE LET c == SourceCall(src, trace, "Int", h, <<>>)
           IN  IF c.err # <<>> THEN Result(tv, Wrap("get int value", c.err), c.trace)
               ELSE IF HasBounds(s.ty) /\ src.ival < MinValue(s.ty)
                 THEN Result(tv, Wrap("invalid value", <<ErrRange>>), c.trace)
               ELSE IF HasBounds(s.ty) /\ src.ival > MaxValue(s.ty)
                 THEN Result(tv, Wrap("invalid value", <<ErrRange>>), c.trace)
               ELSE Result(src.ival, <<>>, c.trace)

\* an unsigned closure that falls back to the generic Uint when the sized
\* method fails
makeSetUintFallback(s, h, tv, trace, src) ==
    LET c == SourceCall(src, trace, SizedMethod(s.ty), h, <<>>)
        g == SourceCall(src, c.trace, "Uint", h, <<>>)
    IN  IF src.binary /\ c.err = <<>>
          THEN Result(Sized(s.ty, src.ival), <<>>, c.trace)
          ELSE Result(src.ival, <<>>, g.trace)

\* the closure of makeSetUint: the sized method of a BinarySource, else the
\* generic Uint and the check against the upper bound
makeSetUint(s, h, tv, trace, src) ==
    IF src.binary
      THEN LET c == SourceCall(src, trace, SizedMethod(s.ty), h, <<>>)
           IN  IF c.err # <<>> THEN Result(tv, Wrap("get sized value", c.err), c.trace)
               ELSE Result(Sized(s.ty, src.ival), <<>>, c.trace)
      ELSE LET c == SourceCall(src, trace, "Uint", h, <<>>)
           IN  IF c.err # <<>> THEN Result(tv, Wrap("get uint value", c.err), c.trace)
               ELSE IF HasBounds(s.ty) /\ src.ival > MaxValue(s.ty)
                 THEN Result(tv, Wrap("invalid value", <<ErrRange>>), c.trace)
               ELSE Result(src.ival, <<>>, c.trace)

\* the lazySetter of setterOf: cached, _ := Load(ty); cached.(setter)(...)
lazySetter(s, h, tv, trace, src) ==
    LET cached == decs[s.d].setterCache[s.ty]
    IN  IF cached = NoSetter THEN Result(tv, <<ErrPanic>>, trace)
        ELSE RunSetter(cached, h, tv, trace, src)

\* a pointer setter that never installs the new pointee
makeSetPointerNoAssign(s, h, tv, trace, src) ==
    LET r == RunSetter(s.sub[1], h, Zero(types[s.ty].Elem), trace, src)
    IN  Result(tv, r.err, r.trace)

\* a pointer setter that installs the new pointee before decoding into it
makeSetPointerAssignsFirst(s, h, tv, trace, src) ==
    LET r == RunSetter(s.sub[1], h, Zero(types[s.ty].Elem), trace, src)
    IN  Result(<<r.v>>, r.err, r.trace)

\* the closure of makeSetPointer: newValue := reflect.New(pointeeType); run the
\* pointee setter on it; target.Set(newValue) only when that returned nil
makeSetPointer(s, h, tv, trace, src) ==
    LET r == RunSetter(s.sub[1], h, Zero(types[s.ty].Elem), trace, src)
    IN  IF r.err # <<>> THEN Result(tv, r.err, r.trace)
        ELSE Result(<<r.v>>, <<>>, r.trace)

\* a struct setter that never requires values
requireValuesIgnored(d) == FALSE

\* the struct setter's `if d.requireValues`
requireValues(d) == decs[d].requireValues

\* the loop of the struct setter, from field idx on
structFields(s, h, tv, trace, src, idx) ==
    IF idx > Len(s.fields) THEN Result(tv, <<>>, trace)
    ELSE
      LET field == s.fields[idx]
          g == SourceCall(src, trace, "Get", h, field.Name)
          r == RunSetter(s.sub[idx], Append(h, field.Name),
                         FieldByIndex(tv, field.Index), g.trace, src)
          tv2 == SetFieldByIndex(tv, field.Index, r.v)
      IN  IF Is(g.err, ErrNoValue)
            THEN IF requireValues(s.d)
                   THEN Result(tv, Wrap("field", g.err), g.trace)
                   ELSE structFields(s, h, tv, g.trace, src, idx + 1)
          ELSE IF g.err # <<>> THEN Result(tv, Wrap("lookup child", g.err), g.trace)
          ELSE IF r.err # <<>> THEN Result(tv2, Wrap("set field", r.err), r.trace)
          ELSE structFields(s, h, tv2, r.trace, src, idx + 1)

makeSetStruct(s, h, tv, trace, src) == structFields(s, h, tv, trace, src, 1)

\* a slice loop that takes the element it could not decode off the slice again
sliceElementsRollback(s, h, tv, trace, src, i) ==
    IF i >= src.n THEN Result(tv, <<>>, trace)
    ELSE
      LET grown == Append(tv, Zero(types[s.ty].Elem))
          idx == Len(grown)
          r == RunSetter(s.sub[1], ElemHandle(h, i), grown[idx],
                         Yield(trace, ElemHandle(h, i)), src)
          tv2 == [grown EXCEPT ![idx] = r.v]
      IN  IF r.err # <<>> THEN Result(tv, Wrap("set element", r.err), r.trace)
          ELSE sliceElements(s, h, tv2, r.trace, src, i + 1)

\* a slice loop that goes on with the next element after a failed one
sliceElementsContinue(s, h, tv, trace, src, i) ==
    IF i >= src.n THEN Result(tv, <<>>, trace)
    ELSE
      LET grown == Append(tv, Zero(types[s.ty].Elem))
          idx == Len(grown)
          r == RunSetter(s.sub[1], ElemHandle(h, i), grown[idx],
                         Yield(trace, ElemHandle(h, i)), src)
          tv2 == [grown EXCEPT ![idx] = r.v]
          rest == sliceElements(s, h, tv2, r.trace, src, i + 1)
      IN  IF r.err # <<>> /\ rest.err = <<>>
            THEN Result(rest.v, Wrap("set element", r.err), rest.trace)
            ELSE rest

\* the range loop of the slice setter, from the i-th yielded element on
sliceElements(s, h, tv, trace, src, i) ==
    IF i >= src.n THEN Result(tv, <<>>, trace)
    ELSE
      LET grown == Append(tv, Zero(types[s.ty].Elem))
          idx == Len(grown)
          r == RunSetter(s.sub[1], ElemHandle(h, i), grown[idx],
                         Yield(trace, ElemHandle(h, i)), src)
          tv2 == [grown EXCEPT ![idx] = r.v]
      IN  IF r.err # <<>> THEN Result(tv2, Wrap("set element", r.err), r.trace)
          ELSE sliceElements(s, h, tv2, r.trace, src, i + 1)

\* a slice setter that starts from an empty slice
makeSetSliceClearing(s, h, tv, trace, src) ==
    LET c == SourceCall(src, trace, "Iter", h, <<>>)
    IN  IF c.err # <<>> THEN Result(tv, Wrap("as iter", c.err), c.trace)
        ELSE sliceElements(s, h, <<>>, c.trace, src, 0)

makeSetSlice(s, h, tv, trace, src) ==
    LET c == SourceCall(src, trace, "Iter", h, <<>>)
    IN  IF c.err # <<>> THEN Result(tv, Wrap("as iter", c.err), c.trace)
        ELSE sliceElements(s, h, tv, c.trace, src, 0)

\* an array loop that, once the array is full, goes on requesting elements
\* until the sequence ends
arrayElementsDrain(s, h, tv, trace, src, idx) ==
    IF idx >= src.n THEN Result(tv, <<>>, trace)
    ELSE IF idx >= types[s.ty].Len
      THEN arrayElements(s, h, tv, Yield(trace, ElemHandle(h, idx)), src, idx + 1)
    ELSE
      LET r == RunSetter(s.sub[1], ElemHandle(h, idx), tv[idx + 1],
                         Yield(trace, ElemHandle(h, idx)), src)
          tv2 == [tv EXCEPT ![idx + 1] = r.v]
      IN  IF r.err # <<>> THEN Result(tv2, Wrap("set element", r.err), r.trace)
          ELSE arrayElements(s, h, tv2, r.trace, src, idx + 1)

\* an array loop that clears the slots the sequence does not reach
arrayElementsClearing(s, h, tv, trace, src, idx) ==
    IF idx >= types[s.ty].Len THEN Result(tv, <<>>, trace)
    ELSE IF idx >= src.n
      THEN arrayElements(s, h, [tv EXCEPT ![idx + 1] = Zero(types[s.ty].Elem)],
                         trace, src, idx + 1)
    ELSE
      LET r == RunSetter(s.sub[1], ElemHandle(h, idx), tv[idx + 1],
                         Yield(trace, ElemHandle(h, idx)), src)
          tv2 == [tv EXCEPT ![idx + 1] = r.v]
      IN  IF r.err # <<>> THEN Result(tv2, Wrap("set element", r.err), r.trace)
          ELSE arrayElements(s, h, tv2, r.trace, src, idx + 1)

\* the loop of the array setter, from index idx on
arrayElements(s, h, tv, trace, src, idx) ==
    IF idx >= types[s.ty].Len THEN Result(tv, <<>>, trace)
    ELSE IF idx >= src.n THEN Result(tv, <<>>, trace)     \* next() returns !ok
    ELSE
      LET r == RunSetter(s.sub[1], ElemHandle(h, idx), tv[idx + 1],
                         Yield(trace, ElemHandle(h, idx)), src)
          tv2 == [tv EXCEPT ![idx + 1] = r.v]
      IN  IF r.err # <<>> THEN Result(tv2, Wrap("set element", r.err), r.trace)
          ELSE arrayElements(s, h, tv2, r.trace, src, idx + 1)

makeSetArray(s, h, tv, trace, src) ==
    LET c == SourceCall(src, trace, "Iter", h, <<>>)
    IN  IF c.err # <<>> THEN Result(tv, Wrap("as iter", c.err), c.trace)
        ELSE arrayElements(s, h, tv, c.trace, src, 0)

\* the range loop of the map setter over the pairs, from the i-th pair on;
\* mapTarget is the new map, tv the target slot, set only at the end
mapPairs(s, h, tv, mapTarget, trace, src, i) ==
    IF i >= src.n THEN Result(mapTarget, <<>>, trace)
    ELSE
      LET k == RunSetter(s.sub[1], KeyHandle(h, i), Zero(types[s.ty].Key),
                         Yield(trace, KeyHandle(h, i)), src)
          v == RunSetter(s.sub[2], ValueHandle(h, i), Zero(types[s.ty].Elem),
                         k.trace, src)
      IN  IF k.err # <<>> THEN Result(tv, Wrap("set key", k.err), k.trace)
          ELSE IF v.err # <<>> THEN Result(tv, Wrap("set key", v.err), v.trace)
          ELSE mapPairs(s, h, tv, SetMapIndex(mapTarget, k.v, v.v), v.trace, src, i + 1)

\* a map setter that decodes the pairs into the map the target holds
makeSetMapMerging(s, h, tv, trace, src) ==
    LET c == SourceCall(src, trace, "KeyValues", h, <<>>)
    IN  IF c.err # <<>> THEN Result(tv, Wrap("iterate key/value pairs", c.err), c.trace)
        ELSE mapPairs(s, h, tv, MapVal(FALSE, tv.kv), c.trace, src, 0)

makeSetMap(s, h, tv, trace, src) ==
    LET c == SourceCall(src, trace, "KeyValues", h, <<>>)
    IN  IF c.err # <<>> THEN Result(tv, Wrap("iterate key/value pairs", c.err), c.trace)
        ELSE mapPairs(s, h, tv, MapVal(FALSE, {}), c.trace, src, 0)

\* calling a setter: setter(source, target)
RunSetter(s, h, tv, trace, src) ==
    CASE s.k = "lazy" -> lazySetter(s, h, tv, trace, src)
      [] s.k = "text" -> setTextUnmarshaler(s, h, tv, trace, src)
      [] s.k = "bool" -> setBool(s, h, tv, trace, src)
      [] s.k \in IntKinds -> makeSetInt(s, h, tv, trace, src)
      [] s.k \in UintKinds -> makeSetUint(s, h, tv, trace, src)
      [] s.k \in {"float32", "float64"} -> setFloat(s, h, tv, trace, src)
      [] s.k = "string" -> setString(s, h, tv, trace, src)
      [] s.k = "ptr" -> makeSetPointer(s, h, tv, trace, src)
      [] s.k = "struct" -> makeSetStruct(s, h, tv, trace, src)
      [] s.k = "slice" -> makeSetSlice(s, h, tv, trace, src)
      [] s.k = "array" -> makeSetArray(s, h, tv, trace, src)
      [] s.k = "map" -> makeSetMap(s, h, tv, trace, src)

(***************************************************************************)
(* The outcome of a returned Unmarshal call: who called, on which Decoder, *)
(* the target's type, whether a setter ran, the source and the target      *)
(* before and after, the error and the trace of source calls.              *)
(***************************************************************************)
Outcome(p, d, ty, ran, src, tgt0, tgt, err, trace) ==
    [valid |-> TRUE, p |-> p, d |-> d, ty |-> ty, ran |-> ran, src |-> src,
     tgt0 |-> tgt0, tgt |-> tgt, err |-> err, trace |-> trace]

NoOutcome ==
    [valid |-> FALSE, p |-> 0, d |-> 0, ty |-> "", ran |-> FALSE, src |-> NoSource,
     tgt0 |-> <<>>, tgt |-> <<>>, err |-> <<>>, trace |-> <<>>]

\* Unmarshal returning the compile error: no setter ran
CompileFailed(p, cl, err) ==
    /\ calls' = [calls EXCEPT ![p] = IdleCall]
    /\ last' = Outcome(p, cl.d, cl.ty, FALSE, NoSource, <<>>, <<>>, err, <<>>)

(***************************************************************************)
(* The operations.                                                         *)
(***************************************************************************)
\* d.Unmarshal(source, target) with target of type *ty: setterOf(typeSet{}, ty)
\* up to its first effect. The source and the target's value are read only
\* when the setter runs, so they are chosen there. The caller has taken the
\* outcome of the call before: last is cleared.
Unmarshal(p, d, ty) ==
    /\ calls[p].pc = "idle"
    /\ LET cl == [IdleCall EXCEPT !.pc = "compile", !.d = d, !.ty = ty,
                                  !.stack = <<Frame("", <<>>, <<ty>>, <<>>)>>]
           e == setterOfEntry(cl, ty)
       IN  IF e.err # <<>> THEN CompileFailed(p, cl, e.err)
           ELSE calls' = [calls EXCEPT ![p] = e.call] /\ last' = NoOutcome
    /\ UNCHANGED <<types, decs>>

\* the next nested setterOf of a compiling call, up to its first effect
setterOf(p) ==
    /\ calls[p].pc = "compile"
    /\ calls[p].stack[Len(calls[p].stack)].pend # <<>>
    /\ LET cl == calls[p]
           e == setterOfEntry(cl, Head(cl.stack[Len(cl.stack)].pend))
       IN  IF e.err # <<>> THEN CompileFailed(p, cl, e.err)
           ELSE calls' = [calls EXCEPT ![p] = e.call] /\ last' = last
    /\ UNCHANGED <<types, decs>>

\* a setterOf whose Store keeps one entry only: it evicts the other shapes
storeSetterEvicting(p) ==
    /\ calls[p].pc = "compile"
    /\ calls[p].stack[Len(calls[p].stack)].pend = <<>>
    /\ LET cl == calls[p]
           top == cl.stack[Len(cl.stack)]
           s == makeSetterOf(cl.d, top)
       IN  /\ decs' = [decs EXCEPT ![cl.d].setterCache =
                          [t \in DOMAIN @ |-> IF t = top.ty THEN s ELSE NoSetter]]
           /\ calls' = [calls EXCEPT ![p] =
                          Deliver([cl EXCEPT !.stack = SubSeq(@, 1, Len(@) - 1)], s)]
    /\ UNCHANGED <<types, last>>

\* the end of a setterOf whose makeSetterOf succeeded:
\* d.setterCache.Store(ty, setter); return setter
storeSetter(p) ==
    /\ calls[p].pc = "compile"
    /\ calls[p].stack[Len(calls[p].stack)].pend = <<>>
    /\ LET cl == calls[p]
           top == cl.stack[Len(cl.stack)]
           s == makeSetterOf(cl.d, top)
       IN  /\ decs' = [decs EXCEPT ![cl.d].setterCache[top.ty] = s]
           /\ calls' = [calls EXCEPT ![p] =
                          Deliver([cl EXCEPT !.stack = SubSeq(@, 1, Len(@) - 1)], s)]
    /\ UNCHANGED <<types, last>>

\* return setter(source, targetValue)
runSetter(p, src, tgt0) ==
    /\ calls[p].pc = "ready"
    /\ LET cl == calls[p]
           r == RunSetter(cl.setter, <<>>, tgt0, <<>>, src)
       IN  last' = Outcome(p, cl.d, cl.ty, TRUE, src, tgt0, r.v, r.err, r.trace)
    /\ calls' = [calls EXCEPT ![p] = IdleCall]
    /\ UNCHANGED <<types, decs>>

\* the outcome of a call that returns a Decoder: the method, the receiver,
\* the argument and the Decoder returned
Derived(op, d, arg, ret) ==
    [valid |-> FALSE, p |-> 0, d |-> d, ty |-> "", ran |-> FALSE, src |-> NoSource,
     tgt0 |-> <<>>, tgt |-> <<>>, err |-> <<>>, trace |-> <<>>,
     op |-> op, arg |-> arg, ret |-> ret]

\* a WithTag whose new Decoder takes the setter cache of the receiver along
WithTagSharingCache(d, structTag) ==
    /\ IF decs[d].structTag = structTag
         THEN decs' = decs /\ last' = Derived("WithTag", d, structTag, d)
         ELSE /\ Len(decs) < MaxDecoders
              /\ decs' = Append(decs, DecoderObj(structTag, decs[d].requireValues,
                                                 decs[d].setterCache))
              /\ last' = Derived("WithTag", d, structTag, Len(decs) + 1)
    /\ UNCHANGED <<types, calls>>

\* d.WithTag(structTag): the receiver when it has that tag, else a new Decoder
WithTag(d, structTag) ==
    /\ IF decs[d].structTag = structTag
         THEN decs' = decs /\ last' = Derived("WithTag", d, structTag, d)
         ELSE /\ Len(decs) < MaxDecoders
              /\ decs' = Append(decs, DecoderObj(structTag, decs[d].requireValues,
                                                 EmptyCache))
              /\ last' = Derived("WithTag", d, structTag, Len(decs) + 1)
    /\ UNCHANGED <<types, calls>>

\* d.RequireValues(): the receiver when it requires values, else a new Decoder
RequireValues(d) ==
    /\ IF decs[d].requireValues
         THEN decs' = decs /\ last' = Derived("RequireValues", d, "", d)
         ELSE /\ Len(decs) < MaxDecoders
              /\ decs' = Append(decs, DecoderObj(decs[d].structTag, TRUE, EmptyCache))
              /\ last' = Derived("RequireValues", d, "", Len(decs) + 1)
    /\ UNCHANGED <<types, calls>>

(***************************************************************************)
(* Spec: one caller, one Decoder (the package default, or                  *)
(* NewDecoder().RequireValues()), any number of Unmarshal calls, sources   *)
(* with missing keys, bounded nesting and injected errors.                 *)
(***************************************************************************)
Callers == {1, 2}

Targets ==
    {"Node", "*Node", "Bad", "*Bad", "Deep", "map[string][2]int8", "any", "*any",
     "[]any", "[2]any", "map[any]string", "map[string]any"}

FailKinds == {"ErrNoValue", "ErrNotSupported"}

Failures == {<<0, "">>} \cup ((1..MaxFail) \X FailKinds)

\* sources that nest (chains of Node) and sources that yield sequences
Sources ==
    {Source(depth, absent, 0, 0, FALSE, f[1], f[2]) :
        depth \in 1..MaxDepth, absent \in {{}, {<<"V">>}}, f \in Failures}
    \cup
    {Source(1, {}, n, ival, FALSE, f[1], f[2]) :
        n \in 0..MaxElems, ival \in {5, MaxInt8 + 1}, f \in Failures}

TargetValues(ty) == {Zero(ty), Filled(ty)}

Init ==
    /\ types = BaseTypes
    /\ decs \in {<<DecoderObj("", FALSE, [t \in DOMAIN BaseTypes |-> NoSetter])>>,
                 <<DecoderObj("json", TRUE, [t \in DOMAIN BaseTypes |-> NoSetter])>>}
    /\ calls = [p \in Callers |-> IdleCall]
    /\ last = NoOutcome

Next ==
    \/ \E ty \in Targets : Unmarshal(1, 1, ty)
    \/ setterOf(1)
    \/ storeSetter(1)
    \/ /\ calls[1].pc = "ready"
       /\ \E src \in Sources : \E tgt0 \in TargetValues(calls[1].ty) :
             runSetter(1, src, tgt0)

Spec == Init /\ [][Next]_vars

(***************************************************************************)
(* SpecFair: the calls of Spec, each decoding one source into a zero       *)
(* target, with the call that is compiling kept running: a call that can   *)
(* take its next step in setterOf does so eventually.                      *)
(***************************************************************************)
FairSources == {Source(1, {}, 1, 5, FALSE, 0, "")}

NextFair ==
    \/ \E ty \in Targets : Unmarshal(1, 1, ty)
    \/ setterOf(1)
    \/ storeSetter(1)
    \/ /\ calls[1].pc = "ready"
       /\ \E src \in FairSources : runSetter(1, src, Zero(calls[1].ty))

SpecFair ==
    Init /\ [][NextFair]_vars /\ WF_vars(setterOf(1)) /\ WF_vars(storeSetter(1))

(***************************************************************************)
(* SpecConc: two callers share the default Decoder; their Unmarshal calls  *)
(* interleave at every access to the setter cache.                         *)
(***************************************************************************)
ConcTargets == {"Node", "*Node"}

ConcSources == {Source(depth, {}, 0, 0, FALSE, 0, "") : depth \in 1..MaxDepth}

InitConc ==
    /\ types = BaseTypes
    /\ decs = <<DecoderObj("", FALSE, [t \in DOMAIN BaseTypes |-> NoSetter])>>
    /\ calls = [p \in Callers |-> IdleCall]
    /\ last = NoOutcome

NextConc ==
    \E p \in Callers :
        \/ \E ty \in ConcTargets : Unmarshal(p, 1, ty)
        \/ setterOf(p)
        \/ storeSetter(p)
        \/ /\ calls[p].pc = "ready"
           /\ \E src \in ConcSources : \E tgt0 \in TargetValues(calls[p].ty) :
                 runSetter(p, src, tgt0)

SpecConc == InitConc /\ [][NextConc]_vars

(***************************************************************************)
(* SpecFields: Unmarshal into struct types that differ in their tags:      *)
(*   type T struct { A string; B string; E; F; u string; *Node; g }        *)
(*   type E struct { A string; B string; G }                               *)
(*   type F struct { A string; B string }                                  *)
(*   type G struct { A string }                                            *)
(*   type g struct { A string }                                            *)
(* with a tag of the key `key` on T.A, T.B, the embedded E, the embedded   *)
(* *Node, E.A, F.A and G.A, and the tag "Z" on the unexported u, on the    *)
(* default Decoder and on WithTag("url").                                  *)
(***************************************************************************)
KeyTag(key, t) == [k \in TagKeys |-> IF k = key THEN t ELSE <<>>]

Tags == {<<>>, <<"-">>, <<"A">>, <<"B">>, <<",", "o">>,
         <<"A", ",", "o", ",", "p">>, <<"-", ",">>}

FieldTypes(key, tA, tB, tE, tP, tEA, tFA, tGA) ==
    ("T" :> Ty("struct", "", "", 0, FALSE,
               <<Member(<<"A">>, "string", FALSE, TRUE, KeyTag(key, tA)),
                 Member(<<"B">>, "string", FALSE, TRUE, KeyTag(key, tB)),
                 Member(<<"E">>, "E", TRUE, TRUE, KeyTag(key, tE)),
                 Member(<<"F">>, "F", TRUE, TRUE, NoTag),
                 Member(<<"u">>, "string", FALSE, FALSE, KeyTag(key, <<"Z">>)),
                 Member(<<"N", "o", "d", "e">>, "*Node", TRUE, TRUE, KeyTag(key, tP)),
                 Member(<<"g">>, "g", TRUE, FALSE, NoTag),
                 Member(<<"S">>, "[]string", FALSE, TRUE, NoTag),
                 Member(<<"M">>, "map[string]string", FALSE, TRUE, NoTag)>>))
    @@ ("[]string" :> Ty("slice", "string", "", 0, FALSE, <<>>))
    @@ ("map[string]string" :> Ty("map", "string", "string", 0, FALSE, <<>>))
    @@ ("E" :> Ty("struct", "", "", 0, FALSE,
                  <<Member(<<"A">>, "string", FALSE, TRUE, KeyTag(key, tEA)),
                    Member(<<"B">>, "string", FALSE, TRUE, NoTag),
                    Member(<<"G">>, "G", TRUE, TRUE, NoTag)>>))
    @@ ("F" :> Ty("struct", "", "", 0, FALSE,
                  <<Member(<<"A">>, "string", FALSE, TRUE, KeyTag(key, tFA)),
                    Member(<<"B">>, "string", FALSE, TRUE, NoTag)>>))
    @@ ("G" :> Ty("struct", "", "", 0, FALSE,
                  <<Member(<<"A">>, "string", FALSE, TRUE, KeyTag(key, tGA))>>))
    @@ ("g" :> Ty("struct", "", "", 0, FALSE,
                  <<Member(<<"A">>, "string", FALSE, TRUE, NoTag)>>))

Shapes ==
    {FieldTypes(key, tA, tB, tE, tP, tEA, tFA, tGA) :
        key \in TagKeys, tA \in Tags, tB \in {<<>>, <<"A">>},
        tE \in {<<>>, <<"E">>, <<"-">>}, tP \in {<<>>, <<"P">>},
        tEA \in {<<>>, <<"A">>, <<"B">>},
        tFA \in {<<>>, <<"A">>}, tGA \in {<<>>, <<"A">>}}

\* a source with every key, two levels deep, whose sequences yield two
\* elements or pairs, and that never fails
FieldSources == {Source(2, {}, 2, 0, FALSE, 0, "")}

InitFields ==
    /\ types \in {BaseTypes @@ shape : shape \in Shapes}
    /\ decs \in {<<DecoderObj("", FALSE, EmptyCache)>>,
                 <<DecoderObj("url", FALSE, EmptyCache)>>}
    /\ calls = [p \in Callers |-> IdleCall]
    /\ last = NoOutcome

NextFields ==
    \/ Unmarshal(1, 1, "T")
    \/ setterOf(1)
    \/ storeSetter(1)
    \/ /\ calls[1].pc = "ready"
       /\ \E src \in FieldSources : \E tgt0 \in TargetValues(calls[1].ty) :
             runSetter(1, src, tgt0)

SpecFields == InitFields /\ [][NextFields]_vars

(***************************************************************************)
(* SpecValues: one Decoder decodes into a value of one type X, which is    *)
(*   type X <integer kind>      for every integer kind, int and uint on a  *)
(*                              build with 4-byte and with 8-byte words    *)
(*   type X float32, type X float64                                        *)
(* from sources without and with the sized methods of BinarySource, of a   *)
(* type with UnmarshalText, an array or a slice of strings, or a map.       *)
(***************************************************************************)
WordSizes == {4, 8}

NumberTypes ==
    {"X" :> Scalar(kind) :
        kind \in (IntKinds \cup UintKinds \cup {"float32", "float64"}) \ {"int", "uint"}}
    \cup
    {"X" :> Ty(kind, "", "", size, FALSE, <<>>) :
        kind \in {"int", "uint"}, size \in WordSizes}

\* types with an UnmarshalText method on their pointer, of several kinds:
\*   type X []string   (Tags)      type X struct { V string }
\*   type X [2]string              type X map[string]string
\* the interface encoding.TextUnmarshaler itself, a struct with a member of
\* that interface type, and a struct with a member of type Tags
TextTypes ==
    {"X" :> Ty("slice", "string", "", 0, TRUE, <<>>),
     "X" :> Ty("struct", "", "", 0, TRUE, <<Fld(<<"V">>, "string")>>),
     "X" :> Ty("array", "string", "", 2, TRUE, <<>>),
     "X" :> Ty("map", "string", "string", 0, TRUE, <<>>),
     "X" :> Scalar("interface"),
     ("TextUnmarshaler" :> Scalar("interface"))
        @@ ("X" :> Ty("struct", "", "", 0, FALSE,
                      <<Fld(<<"Foo">>, "TextUnmarshaler")>>)),
     ("Tags" :> Ty("slice", "string", "", 0, TRUE, <<>>))
        @@ ("X" :> Ty("struct", "", "", 0, FALSE, <<Fld(<<"T">>, "Tags")>>))}

\* sequences of strings: type X [N]string for every length up to MaxElems,
\* and type X []string
SequenceTypes ==
    {"X" :> Ty("array", "string", "", len, FALSE, <<>>) : len \in 1..MaxElems}
    \cup {"X" :> Ty("slice", "string", "", 0, FALSE, <<>>)}

\* maps: type X map[string]string, whose keys all differ; type X
\* map[int8]string, whose keys are all the one number of the source; and type
\* X map[string][]string, whose values grow with every element decoded
MapTypes ==
    {"X" :> Ty("map", "string", "string", 0, FALSE, <<>>),
     "X" :> Ty("map", "string", "int8", 0, FALSE, <<>>),
     ("[]string" :> Ty("slice", "string", "", 0, FALSE, <<>>))
        @@ ("X" :> Ty("map", "[]string", "string", 0, FALSE, <<>>))}

ValueTypes == NumberTypes \cup TextTypes \cup SequenceTypes \cup MapTypes

\* the numbers a source holds: around every bound of the 8-bit and 16-bit kinds
NarrowValues ==
    {MinInt16 - 1, MinInt16, MinInt8 - 1, MinInt8, -1, 0, 5, MaxInt8, MaxInt8 + 1,
     MaxUint8, MaxUint8 + 1, MaxInt16, MaxInt16 + 1, MaxUint16, MaxUint16 + 1}

\* the numbers a source can hand to a target of type ty: Uint and the UintN
\* methods return no negative number, and the bounds of the 32-bit signed
\* kinds go to the targets of at least 32 bits
ValuesFor(ty) ==
    CASE types[ty].Kind \in UintKinds -> {v \in NarrowValues : v >= 0}
      [] types[ty].Kind \in IntKinds ->
            IF Bits(ty) >= 32 THEN NarrowValues \cup {MinInt32, MaxInt32}
            ELSE NarrowValues
      [] OTHER -> {0, 5}

ValueFailures ==
    {<<0, "">>, <<1, "ErrNoValue">>, <<1, "ErrNotSupported">>, <<2, "ErrNotSupported">>}

\* sources that yield up to one element more than the longest array holds,
\* and may fail at Iter or at one of the elements
SequenceSources ==
    {Source(1, {}, n, 5, FALSE, f[1], f[2]) :
        n \in 0..(MaxElems + 1),
        f \in {<<0, "">>} \cup ((1..(MaxElems + 2)) \X {"ErrNotSupported"})}

\* sources that yield up to MaxElems pairs and may fail at KeyValues or at a
\* call for one of the keys or values
MapSources ==
    {Source(1, {}, n, 5, FALSE, f[1], f[2]) :
        n \in 0..MaxElems,
        f \in {<<0, "">>} \cup ((1..(2 * MaxElems + 1)) \X {"ErrNotSupported"})}

ValueSources(ty) ==
    IF types[ty].Text
      THEN {Source(1, {}, 0, 0, binary, f[1], f[2]) :
               binary \in BOOLEAN, f \in ValueFailures}
    ELSE IF types[ty].Kind \in {"array", "slice"} THEN SequenceSources
    ELSE IF types[ty].Kind = "map" THEN MapSources
    ELSE {Source(1, {}, 0, ival, binary, f[1], f[2]) :
             ival \in ValuesFor(ty), binary \in BOOLEAN, f \in ValueFailures}

\* what the target holds when Unmarshal is called: nothing, or data; a slice
\* may hold two elements and a map an entry
ValueTargets(ty) ==
    TargetValues(ty)
    \cup (IF types[ty].Kind = "slice" /\ ~types[ty].Text
            THEN {<<Filled(types[ty].Elem), Zero(types[ty].Elem)>>} ELSE {})
    \cup (IF types[ty].Kind = "map" /\ ~types[ty].Text
            THEN {MapVal(FALSE, {<<Filled(types[ty].Key), Filled(types[ty].Elem)>>})}
            ELSE {})

InitValues ==
    /\ types \in {BaseTypes @@ shape : shape \in ValueTypes}
    /\ decs = <<DecoderObj("", FALSE, EmptyCache)>>
    /\ calls = [p \in Callers |-> IdleCall]
    /\ last = NoOutcome

NextValues ==
    \/ Unmarshal(1, 1, "X")
    \/ setterOf(1)
    \/ storeSetter(1)
    \/ /\ calls[1].pc = "ready"
       /\ \E src \in ValueSources(calls[1].ty) : \E tgt0 \in ValueTargets(calls[1].ty) :
             runSetter(1, src, tgt0)

SpecValues == InitValues /\ [][NextValues]_vars

(***************************************************************************)
(* SpecDecoders: Decoders are derived with WithTag and RequireValues from  *)
(* the package default or from NewDecoder(), and each of them decodes      *)
(*   type T struct { A string `json:"x" url:"y"`; N *T `json:"n"` }        *)
(***************************************************************************)
DecoderTypes ==
    ("T" :> Ty("struct", "", "", 0, FALSE,
               <<Member(<<"A">>, "string", FALSE, TRUE,
                        [k \in TagKeys |-> IF k = "json" THEN <<"x">> ELSE <<"y">>]),
                 Member(<<"N">>, "*T", FALSE, TRUE, JsonTag(<<"n">>))>>))
    @@ ("*T" :> Ty("ptr", "T", "", 0, FALSE, <<>>))

DecoderSources == {Source(depth, {}, 0, 0, FALSE, 0, "") : depth \in 1..2}

InitDecoders ==
    /\ types = BaseTypes @@ DecoderTypes
    /\ decs \in {<<DecoderObj("", FALSE, EmptyCache)>>,
                 <<DecoderObj("json", FALSE, EmptyCache)>>}
    /\ calls = [p \in Callers |-> IdleCall]
    /\ last = NoOutcome

NextDecoders ==
    \/ \E d \in 1..Len(decs) : \E structTag \in TagKeys : WithTag(d, structTag)
    \/ \E d \in 1..Len(decs) : RequireValues(d)
    \/ \E d \in 1..Len(decs) : Unmarshal(1, d, "T")
    \/ setterOf(1)
    \/ storeSetter(1)
    \/ /\ calls[1].pc = "ready"
       /\ \E src \in DecoderSources : runSetter(1, src, Zero(calls[1].ty))

SpecDecoders == InitDecoders /\ [][NextDecoders]_vars

(***************************************************************************)
(* Properties of the decoder.                                              *)
(***************************************************************************)
\* the resolved fields of the type the last call decoded into
LastFields == fieldsToSerialize(last.ty, TagOf(last.d)).fields

\* the position in a field list of the field with a name (0 when there is none)
FieldPos(fields, name) ==
    IF \E i \in 1..Len(fields) : fields[i].Name = name
      THEN CHOOSE i \in 1..Len(fields) : fields[i].Name = name
      ELSE 0

\* a source call that failed and is not a NoValue the struct setter skips
Tolerated(e) ==
    e.m = "Get" /\ Is(e.err, ErrNoValue) /\ ~decs[last.d].requireValues

Failing(e) == e.err # <<>> /\ ~Tolerated(e)

\* the run decoded an integer that the target's width cannot hold
OutOfRange ==
    /\ last.src.ival < MinInt8 \/ last.src.ival > MaxInt8
    /\ \E i \in 1..Len(last.trace) : last.trace[i].m = "Int" /\ last.trace[i].err = <<>>

\* a struct was decoded at the root of the last call
StructRun == last.valid /\ last.ran /\ types[last.ty].Kind = "struct"

\* C1: when Get(name) of a resolved field returns NoValue, a Decoder without
\* require-values leaves the field's slot as it was, goes on with the next
\* field (the next source call is the next field's Get) and, when nothing else
\* fails, returns nil; a Decoder with require-values stops there and returns
\* an error that is NoValue.
C1_NoValueSkipsOrFails ==
    StructRun =>
      \A i \in 1..Len(last.trace) :
        LET e == last.trace[i]
            pos == FieldPos(LastFields, e.key)
        IN  (e.m = "Get" /\ e.h = <<>> /\ Is(e.err, ErrNoValue)) =>
              IF decs[last.d].requireValues
                THEN i = Len(last.trace) /\ Is(last.err, ErrNoValue)
                ELSE /\ pos > 0
                     /\ FieldByIndex(last.tgt, LastFields[pos].Index)
                          = FieldByIndex(last.tgt0, LastFields[pos].Index)
                     /\ pos < Len(LastFields) =>
                          /\ i < Len(last.trace)
                          /\ last.trace[i + 1].m = "Get"
                          /\ last.trace[i + 1].h = <<>>
                          /\ last.trace[i + 1].key = LastFields[pos + 1].Name
                     /\ pos = Len(LastFields) => i = Len(last.trace)
                     /\ (~OutOfRange /\ \A j \in 1..Len(last.trace) :
                                            ~Failing(last.trace[j]))
                          => last.err = <<>>

\* a Node whose V was missing kept its old V while its N was decoded
C1_Witness ==
    /\ StructRun /\ last.ty = "Node" /\ ~decs[last.d].requireValues
    /\ last.tgt0 = Filled("Node")
    /\ last.trace[1].m = "Get" /\ last.trace[1].key = <<"V">>
    /\ Is(last.trace[1].err, ErrNoValue)
    /\ last.err = <<>>
    /\ last.tgt[1] = <<"o", "l", "d">>
    /\ last.tgt[2] # <<>> /\ last.tgt[2] # last.tgt0[2]

\* the shapes a shape refers to: resolved struct fields, pointee, element,
\* key and value
ShapeChildren(ty, structTag) ==
    IF types[ty].Text THEN {}
    ELSE CASE types[ty].Kind = "struct" ->
                {f.Type : f \in {fieldsToSerialize(ty, structTag).fields[i] :
                            i \in 1..Len(fieldsToSerialize(ty, structTag).fields)}}
           [] types[ty].Kind \in {"ptr", "slice", "array"} -> {types[ty].Elem}
           [] types[ty].Kind = "map" -> {types[ty].Key, types[ty].Elem}
           [] OTHER -> {}

\* the shapes reachable from a set of shapes
RECURSIVE Reachable(_, _)
Reachable(S, structTag) ==
    LET N == S \cup UNION {ShapeChildren(t, structTag) : t \in S}
    IN  IF N = S THEN S ELSE Reachable(N, structTag)

\* the reachable shapes whose kind no setter decodes
Undecodable(ty, structTag) ==
    {t \in Reachable({ty}, structTag) :
        ~types[t].Text /\ types[t].Kind \notin ScalarKinds \cup CompositeKinds}

\* C2: an Unmarshal whose target shape reaches a shape of an undecodable kind
\* returns, without running a setter (no source call, target untouched), an
\* error whose root is the NotSupportedError of one of those shapes.
C2_UnsupportedFailsAtCompile ==
    (last.valid /\ Undecodable(last.ty, TagOf(last.d)) # {}) =>
        /\ ~last.ran
        /\ last.trace = <<>>
        /\ last.err # <<>>
        /\ last.err[Len(last.err)].e = "NotSupportedError"
        /\ last.err[Len(last.err)].ty \in Undecodable(last.ty, TagOf(last.d))

\* C3: with concurrent calls on one Decoder no call executes a cycle thunk
\* whose shape has no setter in the cache: no run ends in the thunk's failed
\* cache lookup.
C3_NoThunkBeforeStore ==
    (last.valid /\ last.ran) => ~Is(last.err, ErrPanic)

\* the number of nodes of the chain a Node value heads
RECURSIVE ChainLen(_)
ChainLen(node) == IF node[2] = <<>> THEN 1 ELSE 1 + ChainLen(node[2][1])

\* a decode of a source without injected errors into a zero-valued Node
FreshChainRun ==
    /\ last.valid /\ last.ran /\ last.ty = "Node"
    /\ last.src.failAt = 0
    /\ last.tgt0 = Zero("Node")

\* C4, as stated: decoding a source whose Get of the self-referential field
\* returns NoValue at depth d into a (zero-valued) Node returns nil and leaves
\* a chain of exactly d nodes, the last N being nil -- on any Decoder.
C4_ChainOfDepth_AnyDecoder ==
    FreshChainRun => last.err = <<>> /\ ChainLen(last.tgt) = last.src.depth

\* C4, amended: on a Decoder with require-values off, decoding a source whose
\* Get of the self-referential field returns NoValue at depth d into a
\* zero-valued Node terminates with nil and leaves a chain of exactly d nodes
\* whose last self-referential pointer is nil.
C4_ChainOfDepth ==
    (FreshChainRun /\ ~decs[last.d].requireValues) =>
        last.err = <<>> /\ ChainLen(last.tgt) = last.src.depth

C4_Witness ==
    /\ FreshChainRun /\ ~decs[last.d].requireValues
    /\ last.src.depth >= 3 /\ last.err = <<>>
    /\ ChainLen(last.tgt) = last.src.depth
    /\ last.tgt[2][1][2][1][1] = <<".", "N", ".", "N", ".", "V">>

\* a call of a scalar method that returned a value
Decoded(e) == e.m \in {"String", "Int"} /\ e.err = <<>>

\* C5: when the pointee setter fails the pointer slot holds what it held
\* before the call: a pointer target is unchanged when Unmarshal fails, a
\* Node's N is unchanged when decoding below N failed, and an element of a
\* []*int8 whose decode failed stays nil.
C5_PointerSetOnlyOnSuccess ==
    (last.valid /\ last.ran /\ last.err # <<>>) =>
        /\ types[last.ty].Kind = "ptr" => last.tgt = last.tgt0
        /\ last.ty = "Node" => last.tgt[2] = last.tgt0[2]
        /\ (last.ty = "Deep" /\ Len(last.tgt[1]) > Len(last.tgt0[1])
              /\ last.trace[Len(last.trace)].h = <<<<"S">>, <<Digits[Len(last.tgt[1]) - Len(last.tgt0[1])]>>>>)
             => last.tgt[1][Len(last.tgt[1])] = <<>>

\* a *Node that pointed to a node still points to it after a decode that
\* filled part of a new node and then failed
C5_Witness ==
    /\ last.valid /\ last.ran /\ last.ty = "*Node" /\ last.err # <<>>
    /\ last.tgt0 = Filled("*Node") /\ last.tgt = last.tgt0
    /\ \E i \in 1..Len(last.trace) : Decoded(last.trace[i])

\* C6: a source call that returns an error (other than Get's NoValue on a
\* Decoder without require-values) and an integer that fails the range check
\* are the last source call of the Unmarshal call, which returns an error.
C6_AbortOnFirstError ==
    (last.valid /\ last.ran) =>
        \A i \in 1..Len(last.trace) :
            LET e == last.trace[i]
                ranged == /\ e.m = "Int" /\ e.err = <<>>
                          /\ last.src.ival < MinInt8 \/ last.src.ival > MaxInt8
            IN  (Failing(e) \/ ranged) =>
                    /\ \A j \in (i + 1)..Len(last.trace) : last.trace[j].m = "yield"
                    /\ last.err # <<>>

\* the second element of a slice failed after the first was decoded, and
\* the struct's next field was not looked up
C6_Witness ==
    /\ last.valid /\ last.ran /\ last.ty = "Deep" /\ last.err # <<>>
    /\ Len(last.trace) = 6
    /\ last.trace[5].m = "yield" /\ Decoded(last.trace[4])
    /\ Failing(last.trace[6]) /\ last.trace[6].m = "Int"

\* C7: the error Unmarshal returns Is the error the failing source method
\* returned, and Is strconv.ErrRange when the range check failed, through
\* every nesting of struct, pointer, slice, array and map setters.
C7_RootCausePreserved ==
    (last.valid /\ last.ran) =>
        /\ \A i \in 1..Len(last.trace) :
              Failing(last.trace[i]) =>
                  Is(last.err, last.trace[i].err[Len(last.trace[i].err)])
        /\ (OutOfRange /\ \A i \in 1..Len(last.trace) : ~Failing(last.trace[i]))
              => Is(last.err, ErrRange)

\* a NotSupported of Int four setters deep: struct, map, array, int8
C7_Witness ==
    /\ last.valid /\ last.ran /\ last.ty = "Deep"
    /\ Failing(last.trace[Len(last.trace)])
    /\ last.trace[Len(last.trace)].m = "Int"
    /\ Is(last.err, ErrNotSupported) /\ Len(last.err) >= 5

(***************************************************************************)
(* Field resolution, stated without the resolver's walk: the name of a     *)
(* member, the structs whose members are promoted, and the candidates.     *)
(***************************************************************************)
\* the positions of the commas of a tag
Commas(tag) == {i \in 1..Len(tag) : tag[i] = ","}

\* the text of a tag before its first comma
BeforeComma(tag) ==
    IF Commas(tag) = {} THEN tag
    ELSE SubSeq(tag, 1, (CHOOSE i \in Commas(tag) : \A j \in Commas(tag) : i <= j) - 1)

\* the name a member is known by under a tag key (<<>>: no field at all)
NameUnder(m, k) ==
    IF m.Tag[k] = <<"-">> THEN <<>>
    ELSE IF BeforeComma(m.Tag[k]) # <<>> THEN BeforeComma(m.Tag[k])
    ELSE m.Name

\* whether that name is an explicit tag name
ExplicitUnder(m, k) == m.Tag[k] # <<"-">> /\ BeforeComma(m.Tag[k]) # <<>>

\* members whose own members are promoted: embedded structs without a tag name
IsPromoted(m, k) ==
    /\ m.Exported /\ m.Anonymous /\ ~ExplicitUnder(m, k) /\ NameUnder(m, k) # <<>>
    /\ types[m.Type].Kind = "struct"

\* members that are candidates for their name
IsCandidate(m, k) ==
    /\ m.Exported /\ NameUnder(m, k) # <<>>
    /\ ~(m.Anonymous /\ ~ExplicitUnder(m, k))

\* the structs one embedding level below a set of structs
Embedded(level, k) ==
    UNION {{[Type |-> types[q.Type].Members[i].Type, Index |-> Append(q.Index, i)] :
              i \in {j \in 1..Len(types[q.Type].Members) :
                        IsPromoted(types[q.Type].Members[j], k)}} : q \in level}

\* the candidates in a set of structs and in all structs embedded below them
RECURSIVE CandidatesBelow(_, _)
CandidatesBelow(level, k) ==
    IF level = {} THEN {}
    ELSE UNION {{[Name |-> NameUnder(types[q.Type].Members[i], k),
                  Explicit |-> ExplicitUnder(types[q.Type].Members[i], k),
                  Type |-> types[q.Type].Members[i].Type,
                  Index |-> Append(q.Index, i)] :
                    i \in {j \in 1..Len(types[q.Type].Members) :
                              IsCandidate(types[q.Type].Members[j], k)}} : q \in level}
         \cup CandidatesBelow(Embedded(level, k), k)

Candidates(ty, k) == CandidatesBelow({[Type |-> ty, Index |-> <<>>]}, k)

\* the candidates of a name at the shallowest depth at which the name occurs
Shallowest(ty, k, name) ==
    {c \in Candidates(ty, k) :
        /\ c.Name = name
        /\ \A c2 \in Candidates(ty, k) :
              c2.Name = name => Len(c.Index) <= Len(c2.Index)}

\* an Unmarshal into a T that ran its struct setter
FieldRun == last.valid /\ last.ran /\ last.ty = "T"

\* the fields the struct setter of the last call's type captured
CachedFields == decs[last.d].setterCache[last.ty].fields

\* the root-level Get calls of the last run for a name
GetsOf(name) ==
    {i \in 1..Len(last.trace) :
        last.trace[i].m = "Get" /\ last.trace[i].h = <<>> /\ last.trace[i].key = name}

\* candidate c is the resolved field of its name: the one field of that name,
\* looked up once, decoded into c's slot; the other candidates are untouched
ResolvedTo(c) ==
    /\ Cardinality({i \in 1..Len(CachedFields) : CachedFields[i].Name = c.Name}) = 1
    /\ \E i \in 1..Len(CachedFields) :
          CachedFields[i] = [Name |-> c.Name, Type |-> c.Type, Index |-> c.Index]
    /\ Cardinality(GetsOf(c.Name)) = 1
    /\ c.Type = "string" => FieldByIndex(last.tgt, c.Index) = StringOf(<<c.Name>>)
    /\ \A c2 \in Candidates(last.ty, TagOf(last.d)) :
          (c2.Name = c.Name /\ c2 # c) =>
              FieldByIndex(last.tgt, c2.Index) = FieldByIndex(last.tgt0, c2.Index)

\* C8: a candidate that is the only one of its name at the shallowest depth
\* at which the name occurs is the resolved field, whatever candidates of the
\* name exist at deeper levels, explicit or not.
C8_SingleShallowestWins ==
    FieldRun =>
        \A c \in Candidates(last.ty, TagOf(last.d)) :
            Shallowest(last.ty, TagOf(last.d), c.Name) = {c} => ResolvedTo(c)

\* F.A, promoted, is alone at depth 1 and wins over an explicit G.A at depth 2
C8_Witness ==
    /\ FieldRun /\ last.err = <<>> /\ last.tgt0 = Filled("T")
    /\ \E c \in Candidates("T", TagOf(last.d)) :
          /\ c.Name = <<"A">> /\ c.Index = <<4, 1>>
          /\ Shallowest("T", TagOf(last.d), c.Name) = {c}
          /\ \E c2 \in Candidates("T", TagOf(last.d)) :
                c2.Name = c.Name /\ c2.Explicit /\ Len(c2.Index) = 3
          /\ FieldByIndex(last.tgt, c.Index) = <<".", "A">>

\* C9: when two or more candidates of a name share the shallowest depth, the
\* one explicit candidate among them, if there is exactly one, is the resolved
\* field; otherwise the name has no field: no Get is issued for it, every
\* candidate of the name, deeper ones too, keeps its value, and the decode
\* returns no error.
C9_TieAtShallowestDepth ==
    FieldRun =>
        \A name \in {c.Name : c \in Candidates(last.ty, TagOf(last.d))} :
            LET tied == Shallowest(last.ty, TagOf(last.d), name)
                explicit == {c \in tied : c.Explicit}
            IN  Cardinality(tied) >= 2 =>
                  IF Cardinality(explicit) = 1
                    THEN \A c \in explicit : ResolvedTo(c)
                    ELSE /\ \A i \in 1..Len(CachedFields) : CachedFields[i].Name # name
                         /\ GetsOf(name) = {}
                         /\ \A c \in Candidates(last.ty, TagOf(last.d)) :
                               c.Name = name =>
                                  FieldByIndex(last.tgt, c.Index)
                                     = FieldByIndex(last.tgt0, c.Index)
                         /\ last.err = <<>>

\* E.A and F.A, both implicit, tie at depth 1: A is dropped, G.A below too
C9_Witness ==
    /\ FieldRun /\ last.err = <<>> /\ last.tgt0 = Filled("T")
    /\ Cardinality(Shallowest("T", TagOf(last.d), <<"A">>)) = 2
    /\ \A c \in Shallowest("T", TagOf(last.d), <<"A">>) : ~c.Explicit /\ Len(c.Index) = 2
    /\ \E c \in Candidates("T", TagOf(last.d)) : c.Name = <<"A">> /\ Len(c.Index) = 3
    /\ GetsOf(<<"A">>) = {}
    /\ last.tgt[3][1] = <<"o", "l", "d">> /\ last.tgt[4][1] = <<"o", "l", "d">>
    /\ GetsOf(<<"B">>) # {}

\* the struct types of a run
StructTypes == {t \in DOMAIN types : types[t].Kind = "struct"}

\* C10: under tag key k a member is known by its own name, implicitly, when
\* its tag for k is empty or starts with a comma; by the text before the first
\* comma, explicitly, when that text is not empty; and is no field at all when
\* the tag is exactly "-". The fields of a compiled struct setter carry these
\* names.
C10_NameOf ==
    /\ \A t \in StructTypes : \A i \in 1..Len(types[t].Members) : \A k \in TagKeys :
          LET m == types[t].Members[i]
              n == nameOf(m, k)
          IN  /\ n.name = NameUnder(m, k)
              /\ n.name # <<>> => n.explicit = ExplicitUnder(m, k)
              /\ m.Tag[k] = <<>> => n.name = m.Name /\ ~n.explicit
              /\ m.Tag[k] = <<"-">> => n.name = <<>>
              /\ (m.Tag[k] # <<>> /\ m.Tag[k][1] = ",") => n.name = m.Name /\ ~n.explicit
    /\ FieldRun =>
          \A i \in 1..Len(CachedFields) :
              \E c \in Candidates(last.ty, TagOf(last.d)) :
                  /\ c.Index = CachedFields[i].Index
                  /\ c.Name = CachedFields[i].Name

\* T.A tagged ",o" was decoded under its own name A
C10_Witness ==
    /\ FieldRun /\ last.err = <<>>
    /\ types["T"].Members[1].Tag[TagOf(last.d)] = <<",", "o">>
    /\ \E i \in 1..Len(CachedFields) :
          CachedFields[i].Name = <<"A">> /\ CachedFields[i].Index = <<1>>
    /\ last.tgt[1] = <<".", "A">>

\* the members of the last call's type with their positions
TopMembers == {[i |-> i, m |-> types[last.ty].Members[i]] :
                  i \in 1..Len(types[last.ty].Members)}

\* the fields of the struct setter whose path passes through member i
FieldsThrough(i) ==
    {j \in 1..Len(CachedFields) :
        Len(CachedFields[j].Index) >= 2 /\ CachedFields[j].Index[1] = i}

\* the Get calls of the last run on the source value at handle h
GetsAt(h) ==
    {i \in 1..Len(last.trace) : last.trace[i].m = "Get" /\ last.trace[i].h = h}

\* C11: an exported anonymous struct member without a tag name is no field
\* (no field has its path, no Get is issued for its name) and its members are
\* candidates one level deeper: one that is alone at the shallowest depth of
\* its name is decoded, by a Get on the enclosing source value, into the slot
\* reached through the embedded member. With an explicit tag name the member
\* is the field of that name, decoded as a struct from Get(name), and no field
\* has a path through it.
C11_EmbeddedPromotion ==
    FieldRun =>
      \A e \in TopMembers :
        LET k == TagOf(last.d)
            name == NameUnder(e.m, k)
            inner == types[e.m.Type].Members
        IN  (e.m.Anonymous /\ e.m.Exported /\ types[e.m.Type].Kind = "struct"
               /\ name # <<>>) =>
              IF ExplicitUnder(e.m, k)
                THEN /\ \E j \in 1..Len(CachedFields) :
                           CachedFields[j] = [Name |-> name, Type |-> e.m.Type,
                                              Index |-> <<e.i>>]
                     /\ Cardinality(GetsOf(name)) = 1
                     /\ FieldsThrough(e.i) = {}
                     /\ GetsAt(<<name>>) # {}
                ELSE /\ \A j \in 1..Len(CachedFields) : CachedFields[j].Index # <<e.i>>
                     /\ GetsOf(name) = {}
                     /\ GetsAt(<<name>>) = {}
                     /\ \A j \in 1..Len(inner) :
                          LET c == [Name |-> NameUnder(inner[j], k),
                                    Explicit |-> ExplicitUnder(inner[j], k),
                                    Type |-> inner[j].Type, Index |-> <<e.i, j>>]
                          IN  (IsCandidate(inner[j], k)
                                 /\ Shallowest(last.ty, k, c.Name) = {c})
                                => /\ ResolvedTo(c)
                                   /\ last.tgt[e.i][j] = StringOf(<<c.Name>>)

\* F is promoted and its B, renamed by no tag, is decoded through T.F while
\* E, tagged "E", is decoded as the field E from the source value .E
C11_Witness ==
    /\ FieldRun /\ last.err = <<>> /\ last.tgt0 = Zero("T")
    /\ ExplicitUnder(types["T"].Members[3], TagOf(last.d))
    /\ last.tgt[3][1] = <<".", "E", ".", "A">>
    /\ GetsOf(<<"F">>) = {}
    /\ last.tgt[4][2] = <<".", "B">>

\* the exported anonymous members of the last call's type whose kind is not
\* struct and that have a name
AnonymousNonStruct ==
    {e \in TopMembers :
        /\ e.m.Anonymous /\ e.m.Exported /\ types[e.m.Type].Kind # "struct"
        /\ NameUnder(e.m, TagOf(last.d)) # <<>>}

\* member e is the field of its name, looked up once
OrdinaryField(e) ==
    /\ \E j \in 1..Len(CachedFields) :
          CachedFields[j] = [Name |-> NameUnder(e.m, TagOf(last.d)),
                             Type |-> e.m.Type, Index |-> <<e.i>>]
    /\ Cardinality(GetsOf(NameUnder(e.m, TagOf(last.d)))) = 1

\* C12, as stated: an anonymous member whose kind is not struct is a normal
\* field: it is in the resolved field list under its name and is decoded
\* through Get(name).
C12_AnonymousNonStructIsField ==
    FieldRun => \A e \in AnonymousNonStruct : OrdinaryField(e)

\* C12, amended: an anonymous member whose kind is not struct is a normal
\* field only when it has an explicit tag name; without one it is skipped: no
\* field has its path or a path through it, no Get is issued for its name, and
\* its value after the decode is its value before.
C12_AnonymousNonStruct ==
    FieldRun =>
      \A e \in AnonymousNonStruct :
        IF ExplicitUnder(e.m, TagOf(last.d))
          THEN OrdinaryField(e)
          ELSE /\ \A j \in 1..Len(CachedFields) : CachedFields[j].Index[1] # e.i
               /\ GetsOf(e.m.Name) = {}
               /\ last.tgt[e.i] = last.tgt0[e.i]

\* the untagged embedded *Node of a T kept the node it pointed to
C12_Witness ==
    /\ FieldRun /\ last.err = <<>> /\ last.tgt0 = Filled("T")
    /\ types["T"].Members[6].Tag[TagOf(last.d)] = <<>>
    /\ GetsOf(<<"N", "o", "d", "e">>) = {}
    /\ last.tgt[6] = <<Zero("Node")>>
    /\ last.tgt[1] = <<".", "A">>

\* C13: an unexported member is never resolved: no field has its path or a
\* path through it (it is no field and nothing is promoted through it), no Get
\* is issued for its name or its tag name, and its value after the decode is
\* its value before.
C13_UnexportedNeverResolved ==
    FieldRun =>
      \A e \in TopMembers :
        ~e.m.Exported =>
          /\ \A j \in 1..Len(CachedFields) : CachedFields[j].Index[1] # e.i
          /\ GetsOf(e.m.Name) = {}
          /\ GetsOf(NameUnder(e.m, TagOf(last.d))) = {}
          /\ last.tgt[e.i] = last.tgt0[e.i]

\* a T whose unexported u is tagged "Z" and whose embedded unexported g holds a
\* promotable A was decoded and both kept what they held
C13_Witness ==
    /\ FieldRun /\ last.err = <<>> /\ last.tgt0 = Filled("T")
    /\ NameUnder(types["T"].Members[5], TagOf(last.d)) = <<"Z">>
    /\ GetsOf(<<"Z">>) = {}
    /\ last.tgt[5] = <<"o", "l", "d">>
    /\ last.tgt[7] = <<<<"o", "l", "d">>>>
    /\ last.tgt[2] = <<".", "B">>

\* a returned decode into a value of type X
ValueRun == last.valid /\ last.ran /\ last.ty = "X"

\* the calls of the last run to the Source method m
CallsOf(m) == {i \in 1..Len(last.trace) : last.trace[i].m = m}

\* C14: a source without the sized methods decodes an integer target of any
\* width with bounds [min, max] from the number v its generic method returns:
\* with v inside the bounds, the bounds themselves included, the target is v;
\* with v outside the decode fails with a Range error and the target keeps
\* the value it had.
C14_GenericIntegerRange ==
    (/\ ValueRun /\ types["X"].Kind \in IntKinds \cup UintKinds
     /\ ~last.src.binary /\ last.src.failAt = 0) =>
        LET v == last.src.ival
            inside == \/ ~HasBounds("X")
                      \/ /\ v <= MaxValue("X")
                         /\ types["X"].Kind \in IntKinds => MinValue("X") <= v
        IN  IF inside
              THEN last.err = <<>> /\ last.tgt = v
              ELSE Is(last.err, ErrRange) /\ last.tgt = last.tgt0

\* one unit below the lower bound of int16 failed with a Range error and left
\* the 1 the target held
C14_Witness ==
    /\ ValueRun /\ types["X"].Kind = "int16" /\ ~last.src.binary
    /\ last.src.ival = MinInt16 - 1 /\ last.src.failAt = 0
    /\ Is(last.err, ErrRange)
    /\ last.tgt0 = 1 /\ last.tgt = 1

\* the sized method of BinarySource for an integer type: its signedness and
\* its width, the width of int and uint being that of the build
WidthMethod(ty) ==
    LET kind == types[ty].Kind
        word == IF types[ty].Len = 4 THEN "32" ELSE "64"
    IN  CASE kind = "int8" -> "Int8" [] kind = "int16" -> "Int16"
          [] kind = "int32" -> "Int32" [] kind = "int64" -> "Int64"
          [] kind = "int" -> IF word = "32" THEN "Int32" ELSE "Int64"
          [] kind = "uint8" -> "Uint8" [] kind = "uint16" -> "Uint16"
          [] kind = "uint32" -> "Uint32" [] kind = "uint64" -> "Uint64"
          [] kind = "uint" -> IF word = "32" THEN "Uint32" ELSE "Uint64"

\* C15: a source with the sized methods decodes an integer target by exactly
\* one call, to the sized method of the target's width and signedness (of the
\* build's width for int and uint); Int and Uint are not called; an error of
\* the sized method fails the decode and leaves the target.
C15_SizedIntegerMethod ==
    (/\ ValueRun /\ types["X"].Kind \in IntKinds \cup UintKinds
     /\ last.src.binary) =>
        /\ Len(last.trace) = 1
        /\ last.trace[1].m = WidthMethod("X")
        /\ CallsOf("Int") = {} /\ CallsOf("Uint") = {}
        /\ IF last.src.failAt = 1
             THEN /\ Is(last.err, Err(last.src.failKind, ""))
                  /\ last.tgt = last.tgt0
             ELSE last.err = <<>>

\* on a build with 4-byte words the Uint32 of a source failed: the decode
\* into a uint failed with that error and the target kept its 1
C15_Witness ==
    /\ ValueRun /\ types["X"].Kind = "uint" /\ types["X"].Len = 4
    /\ last.src.binary /\ last.src.failAt = 1
    /\ last.trace = <<[m |-> "Uint32", h |-> <<>>, key |-> <<>>,
                      err |-> <<ErrNotSupported>>]>>
    /\ Is(last.err, ErrNotSupported)
    /\ last.tgt0 = 1 /\ last.tgt = 1

\* C16: a source with the sized methods decodes a float32 target through
\* Float32 and a float64 target through Float64, not through the generic
\* Float.
C16_SizedFloatMethod ==
    (/\ ValueRun /\ types["X"].Kind \in {"float32", "float64"}
     /\ last.src.binary) =>
        /\ CallsOf(IF types["X"].Kind = "float32" THEN "Float32" ELSE "Float64") # {}
        /\ CallsOf("Float") = {}

\* C17: a type whose pointer has UnmarshalText is decoded, whatever its kind,
\* by one String() on the source followed by the constructor, which receives
\* the text String() returned; Get, Iter and KeyValues are not called for it,
\* as the target itself or as the member of a struct. The interface type
\* itself is not such a type: compiling it, or a struct with a member of it,
\* fails with the NotSupportedError of the interface type.
C17_TextUnmarshaler ==
    /\ (ValueRun /\ types["X"].Text) =>
          /\ Len(last.trace) >= 1
          /\ last.trace[1].m = "String"
          /\ CallsOf("String") = {1}
          /\ CallsOf("Get") = {} /\ CallsOf("Iter") = {} /\ CallsOf("KeyValues") = {}
          /\ IF last.trace[1].err # <<>>
               THEN Len(last.trace) = 1 /\ last.err # <<>> /\ last.tgt = last.tgt0
               ELSE /\ Len(last.trace) = 2
                    /\ last.trace[2].m = "UnmarshalText"
                    /\ last.trace[2].key = StringOf(<<>>)
                    /\ IF last.trace[2].err # <<>>
                         THEN last.err = last.trace[2].err
                         ELSE last.err = <<>> /\ last.tgt = <<"text">> \o StringOf(<<>>)
    /\ (ValueRun /\ "Tags" \in DOMAIN types) =>
          /\ CallsOf("Iter") = {} /\ CallsOf("KeyValues") = {}
          /\ \A i \in CallsOf("Get") : last.trace[i].h = <<>>
          /\ \A i \in CallsOf("String") : last.trace[i].h = <<<<"T">>>>
          /\ \A i \in CallsOf("UnmarshalText") :
                /\ i > 1 /\ last.trace[i - 1].m = "String"
                /\ last.trace[i - 1].err = <<>>
                /\ last.trace[i].key = StringOf(<<<<"T">>>>)
          /\ last.err = <<>> /\ last.src.failAt = 0 =>
                last.tgt = <<<<"text">> \o StringOf(<<<<"T">>>>)>>
    /\ (last.valid /\ last.ty = "X" /\ types["X"].Kind = "interface") =>
          ~last.ran /\ Is(last.err, NotSupportedError("X"))
    /\ (last.valid /\ last.ty = "X" /\ "TextUnmarshaler" \in DOMAIN types) =>
          ~last.ran /\ Is(last.err, NotSupportedError("TextUnmarshaler"))

\* the member of type Tags of a pre-filled struct was built from the text of
\* the source value under its name, by String() and the constructor alone
C17_Witness ==
    /\ ValueRun /\ "Tags" \in DOMAIN types
    /\ last.tgt0 = Filled("X")
    /\ last.err = <<>>
    /\ Len(last.trace) = 3
    /\ last.trace[2].m = "String" /\ last.trace[3].m = "UnmarshalText"
    /\ last.trace[3].key = <<".", "T">>
    /\ last.tgt = <<<<"text", ".", "T">>>>

\* a returned decode into the array X whose Iter() succeeded
ArrayRun ==
    /\ ValueRun /\ types["X"].Kind = "array" /\ ~types["X"].Text
    /\ last.trace[1].err = <<>>

\* the positions in the trace of the last run at which the sequence yielded
Yields == {i \in 1..Len(last.trace) : last.trace[i].m = "yield"}

\* the number of elements of the last run's sequence decoded without error
DecodedElements ==
    Cardinality({i \in Yields :
        i < Len(last.trace) /\ last.trace[i + 1].err = <<>>})

Min(a, b) == IF a <= b THEN a ELSE b

\* C18: the array setter for length N takes at most N elements from the
\* sequence, never an element at a position from N on, and stores the i-th
\* yielded element at index i; with n elements in the sequence and no failing
\* call it takes min(N, n) of them and returns without error.
C18_ArrayTakesAtMostN ==
    ArrayRun =>
      LET N == types["X"].Len
          n == last.src.n
      IN  /\ Cardinality(Yields) <= Min(N, n)
          /\ \A i \in 1..Len(last.trace) :
                last.trace[i].h # <<>> =>
                   \E k \in 0..(N - 1) : last.trace[i].h = ElemHandle(<<>>, k)
          /\ \A k \in 0..(DecodedElements - 1) :
                last.tgt[k + 1] = StringOf(ElemHandle(<<>>, k))
          /\ last.src.failAt = 0 =>
                /\ last.err = <<>>
                /\ Cardinality(Yields) = Min(N, n)
                /\ DecodedElements = Min(N, n)

\* an array of length 1 was decoded from a sequence of 3 elements: one element
\* was taken and stored
C18_Witness ==
    /\ ArrayRun /\ types["X"].Len = 1 /\ last.src.n = 3
    /\ last.err = <<>>
    /\ Cardinality(Yields) = 1
    /\ last.tgt = <<<<".", "0">>>>

\* C19, as stated: when the sequence yields n < N elements, the elements at
\* the indices n..N-1 of the array are at their zero value after the decode.
C19_ShortSequenceTailIsZero ==
    (ArrayRun /\ last.src.failAt = 0 /\ last.src.n < types["X"].Len) =>
        \A k \in last.src.n..(types["X"].Len - 1) :
            last.tgt[k + 1] = Zero(types["X"].Elem)

\* C19, amended: when the sequence yields n < N elements, the elements at the
\* indices n..N-1 of the array are after the decode what they were before it:
\* at their zero value when the target was zero.
C19_ShortSequenceTailUntouched ==
    (ArrayRun /\ last.src.failAt = 0 /\ last.src.n < types["X"].Len) =>
        /\ \A k \in last.src.n..(types["X"].Len - 1) :
              last.tgt[k + 1] = last.tgt0[k + 1]
        /\ last.tgt0 = Zero("X") =>
              \A k \in last.src.n..(types["X"].Len - 1) :
                  last.tgt[k + 1] = Zero(types["X"].Elem)

\* a pre-filled array of length 2 was decoded from a sequence of 1 element:
\* the second element is the old one
C19_Witness ==
    /\ ArrayRun /\ types["X"].Len = 2 /\ last.src.n = 1 /\ last.src.failAt = 0
    /\ last.tgt0 = Filled("X")
    /\ last.err = <<>>
    /\ last.tgt = <<<<".", "0">>, <<"o", "l", "d">>>>

\* a returned decode into the slice X whose Iter() succeeded
SliceRun ==
    /\ ValueRun /\ types["X"].Kind = "slice" /\ ~types["X"].Text
    /\ last.trace[1].err = <<>>

\* C20: the slice setter appends one element to the target per yielded
\* element and decodes into it before the next element is requested: every
\* yield is followed at once by the decode of that element. When the element
\* at position i fails, the decode returns its error, no further element is
\* requested, and the target holds what it held before, then the i elements
\* decoded before, then the element that failed.
C20_SliceGrowsPerElement ==
    SliceRun =>
      LET k == Len(last.tgt0)
          n == last.src.n
          i == last.src.failAt - 2
      IN  /\ Len(last.tgt) = k + Cardinality(Yields)
          /\ \A j \in 1..k : last.tgt[j] = last.tgt0[j]
          /\ \A y \in Yields :
                /\ y < Len(last.trace)
                /\ last.trace[y + 1].m = "String"
                /\ last.trace[y + 1].h = last.trace[y].h
          /\ \A j \in 0..(DecodedElements - 1) :
                last.tgt[k + j + 1] = StringOf(ElemHandle(<<>>, j))
          /\ IF 0 <= i /\ i < n
               THEN /\ Is(last.err, Err(last.src.failKind, ""))
                    /\ Cardinality(Yields) = i + 1
                    /\ DecodedElements = i
               ELSE /\ last.err = <<>>
                    /\ DecodedElements = n

\* the third element of a sequence failed: the slice, which held one element,
\* holds it, the two decoded elements and the element that failed
C20_Witness ==
    /\ SliceRun /\ last.src.n = 3 /\ last.src.failAt = 4
    /\ last.tgt0 = Filled("X")
    /\ Is(last.err, ErrNotSupported)
    /\ last.tgt = <<<<>>, <<".", "0">>, <<".", "1">>, <<>>>>

\* a returned decode into the map X
MapRun == ValueRun /\ types["X"].Kind = "map" /\ ~types["X"].Text

\* the key and the value the i-th pair of the last run's source decodes to
PairKey(i) ==
    IF types[types["X"].Key].Kind = "string"
      THEN StringOf(KeyHandle(<<>>, i)) ELSE last.src.ival

PairValue(i) ==
    IF types[types["X"].Elem].Kind = "string"
      THEN StringOf(ValueHandle(<<>>, i))
      ELSE [j \in 1..last.src.n |-> StringOf(ElemHandle(ValueHandle(<<>>, i), j - 1))]

\* the pairs of the last run's source that no later pair with an equal key
\* replaces
DecodedPairs ==
    {<<PairKey(i), PairValue(i)>> :
        i \in {i \in 0..(last.src.n - 1) :
                 \A j \in (i + 1)..(last.src.n - 1) : PairKey(j) # PairKey(i)}}

\* C21: when all pairs decode, the target holds a new map of exactly the
\* decoded pairs: each key and each value is decoded into a slot of its own (a
\* value holds only what its own pair yields), a later pair replaces an
\* earlier one of an equal key, and nothing the target held before is left.
\* When KeyValues, a key or a value fails, the target is as it was.
C21_MapReplacedOnSuccess ==
    MapRun =>
      IF last.err = <<>>
        THEN last.tgt = MapVal(FALSE, DecodedPairs)
        ELSE last.tgt = last.tgt0

\* a map[int8]string that held an entry was decoded from two pairs of equal
\* key: it holds the second pair alone
C21_Witness ==
    /\ MapRun /\ types["X"].Key = "int8" /\ last.src.n = 2
    /\ last.tgt0 = MapVal(FALSE, {<<1, <<"o", "l", "d">>>>})
    /\ last.err = <<>>
    /\ last.tgt = MapVal(FALSE, {<<5, <<".", "v", "1">>>>})

\* the names of T's fields under a tag key, in the order of its members
NamesOfT(k) == IF k = "json" THEN <<<<"x">>, <<"n">>>> ELSE <<<<"y">>, <<"N">>>>

\* the outcome of the last call is a Decoder returned by the method op
Returned(op) == "op" \in DOMAIN last /\ last.op = op

\* the Decoder a call returned has the setting asked for and the receiver's
\* other setting
DerivedSettings ==
    /\ Returned("WithTag") =>
          /\ decs[last.ret].structTag = last.arg
          /\ decs[last.ret].requireValues = decs[last.d].requireValues
    /\ Returned("RequireValues") =>
          /\ decs[last.ret].requireValues
          /\ decs[last.ret].structTag = decs[last.d].structTag

\* every setter in the cache of a Decoder was compiled by that Decoder, a
\* struct setter with the names of the Decoder's tag key, and a decode of T
\* looks its fields up by the names of the tag key of the Decoder it ran on
OwnSetters ==
    /\ \A i \in 1..Len(decs) : \A ty \in DOMAIN types :
          LET s == decs[i].setterCache[ty]
          IN  s # NoSetter =>
                /\ s.d = i
                /\ \A j \in 1..Len(s.sub) : s.sub[j].d = i
                /\ s.k = "struct" =>
                      [j \in 1..Len(s.fields) |-> s.fields[j].Name] = NamesOfT(TagOf(i))
    /\ (last.valid /\ last.ran) =>
          \A i \in 1..Len(last.trace) :
              last.trace[i].m = "Get" =>
                 \E j \in 1..2 : last.trace[i].key = NamesOfT(TagOf(last.d))[j]

\* no step changes the tag key or the flag of a Decoder, and a step that
\* returns a Decoder leaves every Decoder there was as it is, cache included
ReceiversKept ==
    \A i \in 1..Len(decs) :
        /\ i <= Len(decs')
        /\ decs'[i].structTag = decs[i].structTag
        /\ decs'[i].requireValues = decs[i].requireValues
        /\ (calls' = calls /\ "op" \in DOMAIN last') => decs'[i] = decs[i]

\* C22: WithTag and RequireValues leave the receiver's tag key, flag and
\* setter cache as they are; the Decoder they return has the setting asked for
\* and the receiver's other setting; and no Decoder holds or runs a struct
\* setter compiled under another tag key: each resolves names by its own.
C22_DerivedDecoders ==
    /\ [](DerivedSettings /\ OwnSetters)
    /\ [][ReceiversKept]_vars

\* T was decoded by the first Decoder and then by the one WithTag("url")
\* derived from it: the first looked up x, the second looks up y
C22_Witness ==
    /\ Len(decs) >= 2
    /\ TagOf(1) = "json" /\ decs[2].structTag = "url"
    /\ decs[1].setterCache["T"] # NoSetter
    /\ decs[1].setterCache["T"].fields[1].Name = <<"x">>
    /\ last.valid /\ last.ran /\ last.d = 2 /\ last.err = <<>>
    /\ last.trace[1].m = "Get" /\ last.trace[1].key = <<"y">>
    /\ last.tgt[1] = <<".", "y">>

\* whether the walk reaches the member at path a before the member at path b:
\* a shallower level first, and within a level in the order of the paths
RECURSIVE PathBefore(_, _)
PathBefore(a, b) ==
    IF Len(a) # Len(b) THEN Len(a) < Len(b)
    ELSE IF a = <<>> THEN FALSE
    ELSE IF Head(a) # Head(b) THEN Head(a) < Head(b)
    ELSE PathBefore(Tail(a), Tail(b))

\* the candidate with which the walk sees a name for the first time
FirstSeen(name) ==
    CHOOSE c \in Candidates(last.ty, TagOf(last.d)) :
        /\ c.Name = name
        /\ \A c2 \in Candidates(last.ty, TagOf(last.d)) :
              (c2.Name = name /\ c2 # c) => PathBefore(c.Index, c2.Index)

\* the positions in the trace of the calls and yields on the children of the
\* source value at handle h, in the order of the trace
ChildEvents(h, m) ==
    SelectSeq([i \in 1..Len(last.trace) |-> last.trace[i]],
              LAMBDA e : e.m = m /\ Len(e.h) = Len(h) + 1
                         /\ SubSeq(e.h, 1, Len(h)) = h)

\* C23: a struct decode calls Get once per resolved field, in the order of
\* the resolved field list, which is the order in which the walk first saw
\* the names (a level before the levels embedded below it); the elements of
\* a sequence and the pairs of a mapping are decoded in the order the source
\* yields them, each before the next is yielded.
C23_DecodeOrder ==
    (FieldRun /\ last.err = <<>>) =>
      LET gets == SelectSeq([i \in 1..Len(last.trace) |-> last.trace[i]],
                            LAMBDA e : e.m = "Get" /\ e.h = <<>>)
          yields == {i \in 1..Len(last.trace) : last.trace[i].m = "yield"}
      IN  /\ \A i, j \in 1..Len(CachedFields) :
                i < j => PathBefore(FirstSeen(CachedFields[i].Name).Index,
                                    FirstSeen(CachedFields[j].Name).Index)
          /\ [i \in 1..Len(gets) |-> gets[i].key]
                = [i \in 1..Len(CachedFields) |-> CachedFields[i].Name]
          /\ \A y \in yields :
                /\ y < Len(last.trace)
                /\ last.trace[y + 1].m = "String"
                /\ last.trace[y + 1].h = last.trace[y].h
          /\ LET elems == ChildEvents(<<<<"S">>>>, "yield")
                 pairs == ChildEvents(<<<<"M">>>>, "yield")
             IN  /\ \A k \in 1..Len(elems) : elems[k].h = ElemHandle(<<<<"S">>>>, k - 1)
                 /\ \A k \in 1..Len(pairs) : pairs[k].h = KeyHandle(<<<<"M">>>>, k - 1)
                 /\ last.tgt[8] = last.tgt0[8]
                       \o [k \in 1..Len(elems) |-> StringOf(elems[k].h)]

\* T.A is tagged "-", so the name A is first seen in the embedded E, after B:
\* Get("B") came before Get("A"), and S and M were decoded in order
C23_Witness ==
    /\ FieldRun /\ last.err = <<>> /\ last.tgt0 = Zero("T")
    /\ Len(CachedFields) >= 4
    /\ CachedFields[1].Name = <<"B">> /\ CachedFields[1].Index = <<2>>
    /\ CachedFields[4].Name = <<"A">> /\ Len(CachedFields[4].Index) = 2
    /\ last.trace[1].key = <<"B">>
    /\ last.tgt[8] = <<<<".", "S", ".", "0">>, <<".", "S", ".", "1">>>>

\* the cycle thunks a setter holds, at any depth
RECURSIVE ThunksOf(_)
ThunksOf(s) ==
    (IF s.k = "lazy" THEN {s} ELSE {})
    \cup UNION {ThunksOf(s.sub[i]) : i \in 1..Len(s.sub)}

\* the last call executed a setter that holds a thunk, and a thunk's lookup
\* found no setter for its shape (the type assertion on the missing cache
\* entry panics)
ThunkLookupMissed ==
    /\ last.valid /\ last.ran
    /\ ThunksOf(decs[last.d].setterCache[last.ty]) # {}
    /\ last.err # <<>> /\ last.err[Len(last.err)] = ErrPanic

\* C24: after any sequence of Unmarshal calls on one Decoder, failed
\* compilations included, a cycle thunk that is executed finds the setter of
\* its shape in the cache.
C24_ThunkFindsSetter == ~ThunkLookupMissed

\* C25: after any sequence of Unmarshal calls on one Decoder, an Unmarshal
\* whose target shape reaches an undecodable kind executes no setter and
\* returns an error that is the NotSupportedError of such a kind, whatever
\* earlier compilations left in the cache.
C25_AlwaysNotSupported ==
    \A ty \in DOMAIN types :
        (last.valid /\ last.ty = ty /\ Undecodable(ty, TagOf(last.d)) # {}) =>
            /\ ~last.ran
            /\ \E t \in Undecodable(ty, TagOf(last.d)) : Is(last.err, NotSupportedError(t))

(***************************************************************************)
(* The setter cache over time.                                             *)
(***************************************************************************)
\* the shape a caller's pending Store is for
StoringShape(p) == calls[p].stack[Len(calls[p].stack)].ty

\* a Store writes a shape the cache has no entry for
StoreIsFirst(p) ==
    storeSetter(p) => decs[calls[p].d].setterCache[StoringShape(p)] = NoSetter

\* C26 as stated: sequential and concurrent alike, a shape is written to
\* the cache at most once: no Store goes to a shape that has an entry.
C26_CacheWrittenOnce == [][\A p \in Callers : StoreIsFirst(p)]_vars

\* every entry stays an entry, and stays the setter of its shape
EntriesKept ==
    \A d \in 1..Len(decs) : \A ty \in DOMAIN decs[d].setterCache :
        decs[d].setterCache[ty] # NoSetter =>
            /\ d <= Len(decs')
            /\ decs'[d].setterCache[ty] # NoSetter
            /\ decs'[d].setterCache[ty].ty = ty
            /\ decs'[d].setterCache[ty].k = decs[d].setterCache[ty].k
            /\ decs'[d].setterCache[ty].d = d

\* within one call the activations of makeSetterOf are for distinct shapes,
\* all of them in construction: a call stores a shape at most once
OneActivationPerShape ==
    \A p \in Callers :
        LET st == calls[p].stack
        IN  \A i, j \in 2..Len(st) :
                /\ st[i].ty \in calls[p].inCon
                /\ (i # j => st[i].ty # st[j].ty)

\* C26 (amended): no cache entry is ever removed, and an entry is only ever
\* replaced by a setter of the same shape and kind (by a concurrent caller
\* that missed the cache before the entry was stored); within one call each
\* shape is compiled, and so stored, at most once.
C26_CacheEntriesKept == []OneActivationPerShape /\ [][EntriesKept]_vars

\* the entry of Node holds the pointer setter that was stored for *Node
\* while Node was in construction, and the entry of *Node is another one:
\* *Node was stored twice, by two callers that both missed the cache
C26_Witness ==
    /\ decs[1].setterCache["Node"] # NoSetter
    /\ decs[1].setterCache["*Node"] # NoSetter
    /\ decs[1].setterCache["*Node"].sub[1].k = "struct"
    /\ decs[1].setterCache["Node"].sub[2].k = "ptr"
    /\ decs[1].setterCache["Node"].sub[2].sub[1].k = "lazy"

\* the activations of makeSetterOf for shape c a call is in
Activations(p, c) ==
    Cardinality({i \in 1..Len(calls[p].stack) : calls[p].stack[i].ty = c})

\* no step starts a compilation of a shape the Decoder of the call has cached
NoRecompile ==
    \A p \in Callers : \A c \in DOMAIN types :
        (calls'[p].d # 0 /\ decs[calls'[p].d].setterCache[c] # NoSetter) =>
            Activations(p, c)' <= Activations(p, c)

\* what a call has obtained is a cycle thunk or the setter in the cache
FromCache(d, c, s) == s.k = "lazy" \/ s = decs[d].setterCache[c]

ServedFromCache ==
    \A p \in Callers :
        /\ calls[p].pc = "ready" =>
              calls[p].setter = decs[calls[p].d].setterCache[calls[p].ty]
        /\ \A i \in 2..Len(calls[p].stack) :
              LET f == calls[p].stack[i]
                  children == ChildTypes(f.ty, f.fields)
              IN  \A j \in 1..Len(f.subs) : FromCache(calls[p].d, children[j], f.subs[j])

\* C27: once the setter of a shape is cached, every later request for the
\* shape, by Unmarshal itself or nested in another shape, in the same or a
\* later call, gets the cached setter and starts no compilation of it; and
\* every compilation, of cyclic shapes too, comes to its end.
C27_CompiledOnceAndTerminates ==
    /\ [][NoRecompile]_vars
    /\ []ServedFromCache
    /\ \A p \in Callers : (calls[p].pc = "compile") ~> (calls[p].pc # "compile")

\* Deep is being compiled after the cyclic Node was: the setter of its map
\* member came from the cache, the map is not in construction in this call
C27_Witness ==
    /\ decs[1].setterCache["Node"] # NoSetter
    /\ calls[1].pc = "compile" /\ Len(calls[1].stack) = 2
    /\ calls[1].stack[2].ty = "Deep"
    /\ Len(calls[1].stack[2].subs) = 2
    /\ calls[1].stack[2].subs[2] = decs[1].setterCache["map[string][2]int8"]
    /\ "map[string][2]int8" \notin calls[1].inCon

(***************************************************************************)
(* Field resolution over time. The resolver runs in makeSetStruct, that is *)
(* when an activation of makeSetterOf for a struct shape starts.           *)
(***************************************************************************)
StructShapes == {c \in DOMAIN types : types[c].Kind = "struct" /\ ~types[c].Text}

\* some Decoder with the tag key k holds a struct setter of c: the fields of
\* the pair (c, k) have been resolved
Resolved(c, k) ==
    \E d \in 1..Len(decs) : TagOf(d) = k /\ decs[d].setterCache[c] # NoSetter

\* C28 as stated: the fields of a pair of struct shape and tag key are
\* resolved at most once, whichever Decoder needs them: no step runs the
\* resolver for a pair that has been resolved.
C28_FieldsResolvedOnce ==
    [][\A p \in Callers : \A c \in StructShapes :
          (calls'[p].d # 0 /\ Resolved(c, TagOf(calls'[p].d))) =>
              Activations(p, c)' <= Activations(p, c)]_vars

\* no step runs the resolver for a struct shape the Decoder of the call has
\* a setter of
NoSecondResolution ==
    \A p \in Callers : \A c \in StructShapes :
        (calls'[p].d # 0 /\ decs[calls'[p].d].setterCache[c] # NoSetter) =>
            Activations(p, c)' <= Activations(p, c)

\* the fields an activation or a cached struct setter has are what the
\* resolver gives for the shape and the tag key of its Decoder
FieldsAsResolved ==
    /\ \A p \in Callers : \A i \in 2..Len(calls[p].stack) :
          LET f == calls[p].stack[i]
          IN  f.ty \in StructShapes =>
                  f.fields = fieldsToSerialize(f.ty, TagOf(calls[p].d)).fields
    /\ \A d \in 1..Len(decs) : \A c \in StructShapes :
          decs[d].setterCache[c] # NoSetter =>
              decs[d].setterCache[c].fields = fieldsToSerialize(c, TagOf(d)).fields

\* C28 (amended): the resolver runs once in each compilation of a struct
\* setter, with the tag key of the compiling Decoder, and its result is kept
\* in that setter only: a Decoder does not resolve a shape it has a setter
\* of, but every Decoder resolves for itself, also under a tag key another
\* Decoder has resolved the shape for.
C28_FieldsResolvedPerSetter == []FieldsAsResolved /\ [][NoSecondResolution]_vars

\* two Decoders with the same tag key each compiled T: the pair (T, key)
\* was resolved twice
C28_Witness ==
    \E d1, d2 \in 1..Len(decs) :
        /\ d1 # d2 /\ TagOf(d1) = TagOf(d2)
        /\ decs[d1].setterCache["T"] # NoSetter
        /\ decs[d2].setterCache["T"] # NoSetter

\* the decode of a slice target that has come to its end
SliceDecoded == ValueRun /\ types["X"].Kind = "slice" /\ ~types["X"].Text

\* C29: the slice setter never clears its target: the k elements the target
\* held are still its first k elements after the decode, whether it succeeds
\* or fails; a decode of n elements that succeeds gives a slice of length
\* k + n whose last n elements are the decoded elements in source order.
C29_SliceKeepsElements ==
    SliceDecoded =>
      LET k == Len(last.tgt0)
          n == last.src.n
      IN  /\ Len(last.tgt) >= k
          /\ SubSeq(last.tgt, 1, k) = last.tgt0
          /\ last.err = <<>> =>
                /\ Len(last.tgt) = k + n
                /\ \A j \in 0..(n - 1) :
                      last.tgt[k + j + 1] = StringOf(ElemHandle(<<>>, j))

\* two elements were decoded into a slice that held two: it holds four, the
\* two it held and then the two decoded ones, which differ
C29_Witness ==
    /\ SliceDecoded /\ last.err = <<>>
    /\ Len(last.tgt0) = 2 /\ last.tgt0[1] # last.tgt0[2]
    /\ last.src.n = 2 /\ Len(last.tgt) = 4
    /\ last.tgt[3] # last.tgt[4]
    /\ last.tgt[3] # last.tgt0[1]

(***************************************************************************)
(* The resolver's own invariants.                                          *)
(***************************************************************************)
DepthOf(c) == Len(c.Field.Index)

\* the candidates of the least depth, in the order of the list
LeastDepth(cs) ==
    SelectSeq(cs, LAMBDA c : \A i \in 1..Len(cs) : DepthOf(c) <= DepthOf(cs[i]))

\* what the walk over shape ty leaves for the loop over `order`
CandidatesInOrder(ty, structTag) ==
    LET walked == collectCandidates(ty, structTag)
    IN  \A i \in 1..Len(walked.order) :
            LET cs == CandidatesOf(walked.candidates, walked.order[i])
            IN  /\ Len(cs) > 0
                /\ IsSortedByDepth(cs)
                /\ visibleOf(cs) = LeastDepth(cs)
                /\ visibleOf(cs) = SubSeq(cs, 1, Len(LeastDepth(cs)))

\* C30: for every struct shape and tag key the candidate list of every name
\* in `order` is non-empty and sorted by non-decreasing index length: the
\* resolver takes neither of its two panics, no compilation or decode ends in
\* one, and the shallowest candidates are the prefix the resolver takes as
\* visible.
C30_CandidatesSorted ==
    /\ \A ty \in StructShapes : \A structTag \in TagKeys :
          /\ CandidatesInOrder(ty, structTag)
          /\ ~fieldsToSerialize(ty, structTag).panic
    /\ last.valid => \A i \in 1..Len(last.err) : last.err[i] # ErrPanic

\* T was compiled where the name A has candidates at three depths, T.A, then
\* E.A and F.A, then G.A: the visible prefix is shorter than the list
C30_Witness ==
    /\ decs[1].setterCache["T"] # NoSetter
    /\ LET cs == CandidatesOf(collectCandidates("T", TagOf(1)).candidates, <<"A">>)
       IN  /\ Len(cs) = 4
           /\ DepthOf(cs[1]) = 1 /\ DepthOf(cs[2]) = 2 /\ DepthOf(cs[4]) = 3
           /\ Len(visibleOf(cs)) = 1

====
